---------------------------- MODULE Spec2Model ----------------------------
(***************************************************************************)
(* A model of the index computation engine of polymarket-crypto-aggregator *)
(* (src/src/CPMI_Final.js): the periodic tick (calculateIndex), the trade  *)
(* aggregator, the category and index aggregation, the smoothing buffer    *)
(* and the read operations of the exposed interface.                       *)
(*                                                                         *)
(* Numbers.  Every JavaScript number that is a real quantity (a size, a    *)
(* price, a probability, a weight, an index value) is represented by the   *)
(* integer  x * Scale  (Scale = 1000, three decimals); a product is        *)
(* Mul(a, b), a quotient Div(a, b), both truncating.  Times (Date.now(),   *)
(* a trade's timestamp) are integers counted in clock units of one hour.   *)
(* A value that may be null is <<>> (null) or <<v>>.                       *)
(***************************************************************************)
EXTENDS Integers, Sequences, FiniteSets, TLC

VARIABLES
    currentIndex,         \* this.currentIndex
    historicalValues,     \* this.historicalValues: the smoothing buffer
    categoryIndices,      \* this.categoryIndices
    lastUpdate,           \* this.lastUpdate (null or a time)
    isRunning,            \* this.isRunning
    timers,               \* ids of the active setInterval timers of the instance
    updateInterval,       \* this.updateInterval: id of the last timer set (0: none)
    startPc,              \* position of the start() call in progress
    inFlight,             \* calculateIndex() calls awaiting their trade fetch
    volatilityData,       \* this.volatilityData (symbol -> volatility)
    marketCapData,        \* this.marketCapData (symbol -> price)
    probabilityHistory,   \* this.probabilityHistory (conditionId -> avgPrice list)
    lastProcessedMarkets, \* this.lastProcessedMarkets (null before the first tick)
    clock,                \* Date.now()
    tickLog,              \* what the last finished tick logged to the console
    fnIn,                 \* argument of a function of the engine called alone
    fnOut,                \* << its result >> once the call has returned
    ws,                   \* the WebSocketClient instance
    aggregator,           \* the CryptoMarketAggregator instance
    api                   \* the API layer: its module variables and requests

vars == << currentIndex, historicalValues, categoryIndices, lastUpdate,
           isRunning, timers, updateInterval, startPc, inFlight, volatilityData,
           marketCapData, probabilityHistory, lastProcessedMarkets, clock,
           tickLog, fnIn, fnOut, ws, aggregator, api >>

-----------------------------------------------------------------------------
(* Bounds of the model *)

MaxInFlight == 2     \* calculateIndex calls awaiting their fetch at once
MaxFetched == 2      \* calculateIndex calls whose trade fetch succeeds
MaxElapsed == 2      \* clock units that may pass
MaxTimers == 1       \* timers set per behaviour
MaxBatch == 2        \* trades in one fetched batch
MaxTracked == 2      \* entries per market in probabilityHistory before an export
StartTime == 25000   \* Date.now() at construction, in clock units

-----------------------------------------------------------------------------
(* Fixed-point arithmetic and small helpers *)

Scale == 10 ^ 3

Mul(a, b) == (a * b) \div Scale
Div(a, b) == (a * Scale) \div b

Min(a, b) == IF a < b THEN a ELSE b
Max(a, b) == IF a > b THEN a ELSE b

Null == << >>
Some(v) == << v >>
IsNull(o) == o = << >>
Val(o) == o[1]

RECURSIVE SumSeq(_)
SumSeq(s) == IF s = << >> THEN 0 ELSE Head(s) + SumSeq(Tail(s))

Range(s) == { s[i] : i \in 1..Len(s) }

-----------------------------------------------------------------------------
(* Strings: String.prototype.toLowerCase and String.prototype.includes     *)

UpperLetters == "ABCDEFGHIJKLMNOPQRSTUVWXYZ"
LowerLetters == "abcdefghijklmnopqrstuvwxyz"

LowerChar(c) ==
    IF \E i \in 1..26 : SubSeq(UpperLetters, i, i) = c
    THEN LET i == CHOOSE j \in 1..26 : SubSeq(UpperLetters, j, j) = c
         IN  SubSeq(LowerLetters, i, i)
    ELSE c

RECURSIVE ToLowerCase(_)
ToLowerCase(s) ==
    IF Len(s) = 0 THEN ""
    ELSE LowerChar(SubSeq(s, 1, 1)) \o ToLowerCase(SubSeq(s, 2, Len(s)))

RECURSIVE ToUpperCase(_)
ToUpperCase(s) ==
    LET UpperChar(c) ==
            IF \E i \in 1..26 : SubSeq(LowerLetters, i, i) = c
            THEN LET i == CHOOSE j \in 1..26 : SubSeq(LowerLetters, j, j) = c
                 IN  SubSeq(UpperLetters, i, i)
            ELSE c
    IN  IF Len(s) = 0 THEN ""
        ELSE UpperChar(SubSeq(s, 1, 1)) \o ToUpperCase(SubSeq(s, 2, Len(s)))

Includes(s, k) ==
    \E i \in 1..(Len(s) - Len(k) + 1) : SubSeq(s, i, i + Len(k) - 1) = k

-----------------------------------------------------------------------------
(* Configuration (constructor, initializeMarketCategories) *)

BaselineValue == 100 * Scale

\* config.smoothingPeriod: 60 * 60 * 1000 ms = 1 clock unit
SmoothingPeriod == 1

\* maxAge of calculateTimeWeight: 24 * 60 * 60 * 1000 ms = 24 clock units
MaxAge == 24

\* The order is the insertion order of the Map this.marketCategories.
MarketCategories == <<
    [ name |-> "bitcoin-markets",
      keywords |-> << "bitcoin", "btc", "bitcoin price", "btc price",
                      "bitcoin adoption", "bitcoin etf", "bitcoin halving",
                      "bitcoin regulation" >> ],
    [ name |-> "ethereum-ecosystem",
      keywords |-> << "ethereum", "eth", "ethereum price", "eth price",
                      "ethereum upgrade", "ethereum 2.0", "eth2", "merge",
                      "shanghai", "cancun", "defi", "decentralized finance",
                      "uniswap", "aave", "compound" >> ],
    [ name |-> "regulatory-outcomes",
      keywords |-> << "sec", "regulation", "regulatory", "approval", "policy",
                      "cftc", "crypto regulation", "digital asset",
                      "stablecoin", "crypto bill", "regulatory approval",
                      "sec approval" >> ],
    [ name |-> "major-altcoins",
      keywords |-> << "solana", "sol", "cardano", "ada", "polkadot", "dot",
                      "chainlink", "link", "litecoin", "ltc", "avalanche",
                      "avax", "polygon", "matic" >> ],
    [ name |-> "infrastructure",
      keywords |-> << "exchange", "custody", "institutional", "adoption",
                      "listing", "coinbase", "binance", "kraken", "fidelity",
                      "blackrock", "exchange listing", "custody solution" >> ]
>>

CategoryNames == { MarketCategories[i].name : i \in 1..Len(MarketCategories) }

\* config.categoryWeights
CategoryWeights ==
    [ c \in CategoryNames |->
        CASE c = "bitcoin-markets"     -> (40 * Scale) \div 100
          [] c = "ethereum-ecosystem"  -> (30 * Scale) \div 100
          [] c = "regulatory-outcomes" -> (20 * Scale) \div 100
          [] c = "major-altcoins"      -> (8 * Scale) \div 100
          [] c = "infrastructure"      -> (2 * Scale) \div 100 ]

\* config.sensitivity, each already divided by 10
Sensitivity ==
    [ volume     |-> (7 * Scale) \div 10,
      time       |-> (6 * Scale) \div 10,
      impact     |-> (8 * Scale) \div 10,
      marketCap  |-> (5 * Scale) \div 10,
      volatility |-> (4 * Scale) \div 10 ]

\* cryptoKeywords of filterCryptoTrades
CryptoKeywords == <<
    "bitcoin", "btc", "ethereum", "eth", "crypto", "cryptocurrency",
    "defi", "nft", "meme", "coin", "token", "blockchain", "web3",
    "solana", "sol", "cardano", "ada", "polkadot", "dot", "chainlink",
    "link", "uniswap", "uni", "aave", "compound", "maker", "mkr",
    "dogecoin", "doge", "shiba", "shib", "pepe", "floki", "bonk" >>

-----------------------------------------------------------------------------
(* The markets of the model: condition ids and the titles of their trades. *)
(* slug and eventSlug are absent from the modelled trades (the code reads  *)
(* them as '').                                                            *)

TitleOf ==
    [ m \in { "m1", "m2", "m3", "m4", "m5", "m6", "m7", "m8", "m9", "m10" } |->
        CASE m = "m1" -> "Will Bitcoin reach $100k?"
          [] m = "m2" -> "Ethereum up or down today?"
          [] m = "m3" -> "Will the SEC approve a Bitcoin ETF?"
          [] m = "m4" -> "Dogecoin to the moon"
          [] m = "m5" -> "Will Kraken IPO this year?"
          [] m = "m6" -> "Will Bitcoin reach $100k by 2025-31-12?"
          [] m = "m7" -> "Will Ethereum hit $5000 by 2027-06-30?"
          [] m = "m8" -> "Will Bitcoin be between $90k and $100k?"
          [] m = "m9" -> "Will Bitcoin crash this year?"
          [] m = "m10" -> "Will Trump launch a crypto token?" ]

ConditionIds == DOMAIN TitleOf
Titles == { TitleOf[m] : m \in ConditionIds }

\* every literal the code passes to includes()
SearchedWords ==
    UNION { Range(MarketCategories[i].keywords) : i \in 1..Len(MarketCategories) }
    \cup Range(CryptoKeywords)
    \cup { "uniswap", "uni", "dogecoin", "doge", "regulatory", "sec", "price",
           "reach", "2024", "end of year", "2025", "month", "30 days", "week",
           "7 days", "day", "24 hours", "between", "and", "$", "hit", "above",
           "below", "dip to", "go to", "touch", "drop to", "fall to",
           "crash to", "up or down", "up/down", "bullish", "bearish", "will",
           "?", "happen", "say", "pass", "win",
           "bitcoin", "btc", "ethereum", "eth", "crypto", "cryptocurrency",
           "solana", "sol", "cardano", "ada", "polkadot", "dot", "litecoin",
           "ltc", "chainlink", "link", "avalanche", "avax", "polygon", "matic",
           "defi", "nft", "binance", "coinbase", "kraken", "exchange", "mining",
           "staking", "election", "mayor", "mayoral", "votes", "voting",
           "senate", "congress", "tennis", "sports", "championship",
           "tournament", "game", "match", "trump", "biden", "president",
           "political", "politics" }

\* title.toLowerCase().includes(word), tabulated once per title
IncludesTable ==
    [ t \in Titles |-> { w \in SearchedWords : Includes(ToLowerCase(t), w) } ]

\* (title?.toLowerCase() || '').includes(word)
TitleIncludes(title, word) == word \in IncludesTable[title]

\* keywords.some(keyword => title.includes(keyword))
SomeKeyword(keywords, title) ==
    \E i \in 1..Len(keywords) : TitleIncludes(title, keywords[i])

-----------------------------------------------------------------------------
(* filterCryptoTrades and processCryptoTrades *)

FilterCryptoTrades(trades) ==
    SelectSeq(trades, LAMBDA t : SomeKeyword(CryptoKeywords, t.title))

NewMarket(trade) ==
    [ conditionId |-> trade.conditionId, title |-> trade.title,
      trades |-> << >>, totalVolume |-> 0, totalValue |-> 0,
      buyVolume |-> 0, sellVolume |-> 0, buyTrades |-> 0, sellTrades |-> 0,
      avgPrice |-> 0, lastTrade |-> Null ]

\* the body of trades.forEach for a market that is already in the map
AddTrade(market, trade) ==
    [ market EXCEPT
        !.trades = Append(@, trade),
        !.totalVolume = @ + trade.size,
        !.totalValue = @ + Mul(trade.size, trade.price),
        !.lastTrade = Some(trade),
        !.buyVolume = IF trade.side = "BUY" THEN @ + trade.size ELSE @,
        !.buyTrades = IF trade.side = "BUY" THEN @ + 1 ELSE @,
        !.sellVolume = IF trade.side = "BUY" THEN @ ELSE @ + trade.size,
        !.sellTrades = IF trade.side = "BUY" THEN @ ELSE @ + 1 ]

\* trades.forEach(...): markets is the Map's values in insertion order
RECURSIVE GroupTrades(_, _)
GroupTrades(markets, trades) ==
    IF trades = << >> THEN markets
    ELSE LET trade == Head(trades)
             known == \E i \in 1..Len(markets) :
                          markets[i].conditionId = trade.conditionId
             with  == IF known THEN markets
                      ELSE Append(markets, NewMarket(trade))
             next  == [ i \in 1..Len(with) |->
                          IF with[i].conditionId = trade.conditionId
                          THEN AddTrade(with[i], trade) ELSE with[i] ]
         IN  GroupTrades(next, Tail(trades))

\* cryptoMarkets.forEach: avgPrice stays 0 when totalVolume is 0
SetAvgPrice(market) ==
    IF market.totalVolume > 0
    THEN [ market EXCEPT !.avgPrice = Div(market.totalValue, market.totalVolume) ]
    ELSE market

ProcessCryptoTrades(trades) ==
    LET grouped == GroupTrades(<< >>, trades)
    IN  [ i \in 1..Len(grouped) |-> SetAvgPrice(grouped[i]) ]

-----------------------------------------------------------------------------
(* Market weight factors *)

\* the fraction n/d as a fixed-point number
F(n, d) == (n * Scale) \div d

\* market.tradeCount || 0 and market.lastTradeTime || 0: processCryptoTrades
\* sets neither field, so both read as 0
TradeCountOf(market) == 0
LastTradeTimeOf(market) == 0

CalculateVolumeScore(volume, tradeCount, avgTradeSize) ==
    LET baseVolumeScore == Min(volume \div 10000, Scale)
        tradeCountScore == Min(F(tradeCount, 100), Scale)
        avgTradePenalty == IF avgTradeSize > 1000 * Scale THEN F(8, 10) ELSE Scale
    IN  Mul(Mul(baseVolumeScore, F(6, 10)) + Mul(tradeCountScore, F(4, 10)),
            avgTradePenalty)

CalculateLiquidityScore(market, now) ==
    LET hoursSinceLastTrade == now - LastTradeTimeOf(market)
    IN  IF hoursSinceLastTrade > 24 THEN F(3, 10)
        ELSE IF hoursSinceLastTrade > 12 THEN F(6, 10)
        ELSE IF hoursSinceLastTrade > 6 THEN F(8, 10)
        ELSE Scale

CalculateActivityScore(market) ==
    LET volume == market.totalVolume
        tradeCount == TradeCountOf(market)
        volumeActivity == Min(volume \div 5000, Scale)
        tradeActivity == Min(F(tradeCount, 50), Scale)
        combinedActivity == (volumeActivity + tradeActivity) \div 2
        activityBonus == IF volumeActivity > F(5, 10) /\ tradeActivity > F(5, 10)
                         THEN F(12, 10) ELSE Scale
    IN  Min(Mul(combinedActivity, activityBonus), Scale)

\* log10 at 1.0, 1.1, ..., 2.0, in thousandths
Log10Table == << 0, 41, 79, 114, 146, 176, 204, 230, 255, 279, 301 >>

\* Math.log10(y) for 1 <= y <= 2, interpolated linearly between the
\* tabulated points
Log10(y) ==
    LET over == (y - Scale) * 10
        k    == Min(over \div Scale, 9)
        frac == over - k * Scale
        lo   == Log10Table[k + 1]
        hi   == Log10Table[k + 2]
    IN  ((lo * Scale + (hi - lo) * frac) \div 1000)

CalculateVolumeWeight(market, now) ==
    LET volume == market.totalVolume
        tradeCount == TradeCountOf(market)
        avgTradeSize == IF volume > 0 /\ tradeCount > 0
                        THEN volume \div tradeCount ELSE 0
        volumeScore == CalculateVolumeScore(volume, tradeCount, avgTradeSize)
        liquidityScore == CalculateLiquidityScore(market, now)
        activityScore == CalculateActivityScore(market)
        totalScore == Mul(volumeScore, F(5, 10)) + Mul(liquidityScore, F(3, 10))
                      + Mul(activityScore, F(2, 10))
    IN  Min(Log10(totalScore + Scale) \div 3, Scale)

CalculateTimeWeight(market, now) ==
    IF IsNull(market.lastTrade) THEN 0
    ELSE LET dataAge == now - Val(market.lastTrade).timestamp
         IN  Max(0, Scale - ((dataAge * Scale) \div MaxAge))

ImpactScores ==
    [ c \in CategoryNames |->
        CASE c = "bitcoin-markets"     -> Scale
          [] c = "ethereum-ecosystem"  -> F(9, 10)
          [] c = "regulatory-outcomes" -> F(8, 10)
          [] c = "major-altcoins"      -> F(6, 10)
          [] c = "infrastructure"      -> F(5, 10) ]

\* the first category (Map order) one of whose keywords the title includes
FirstCategoryOf(title) ==
    LET hits == { i \in 1..Len(MarketCategories) :
                    SomeKeyword(MarketCategories[i].keywords, title) }
    IN  IF hits = {} THEN Null
        ELSE Some(MarketCategories[CHOOSE i \in hits : \A j \in hits : i <= j].name)

CalculateImpactWeight(market) ==
    LET c == FirstCategoryOf(market.title)
    IN  IF IsNull(c) THEN F(1, 10) ELSE ImpactScores[Val(c)]

CalculateMarketCapWeight(market) ==
    LET has(w) == TitleIncludes(market.title, w)
    IN  IF has("bitcoin") \/ has("btc") THEN Scale
        ELSE IF has("ethereum") \/ has("eth") THEN F(9, 10)
        ELSE IF has("solana") \/ has("sol") THEN F(8, 10)
        ELSE IF has("cardano") \/ has("ada") THEN F(7, 10)
        ELSE IF has("polkadot") \/ has("dot") THEN F(6, 10)
        ELSE IF has("chainlink") \/ has("link") THEN F(5, 10)
        ELSE IF has("uniswap") \/ has("uni") THEN F(4, 10)
        ELSE IF has("dogecoin") \/ has("doge") THEN F(3, 10)
        ELSE F(2, 10)

-----------------------------------------------------------------------------
(* Time to expiration *)

Digits == "0123456789"
IsDigit(c) == \E i \in 1..10 : SubSeq(Digits, i, i) = c
DigitValue(c) == (CHOOSE i \in 1..10 : SubSeq(Digits, i, i) = c) - 1

FourDigitsAt(s, i) ==
    /\ i + 3 <= Len(s)
    /\ \A j \in i..(i + 3) : IsDigit(SubSeq(s, j, j))

\* new Date(year, 11, 31), on a clock whose unit 0 starts the year 2024
\* (years of 365 days)
EndOfYear(year) == ((year - 2024) * 365 + 364) * 24

\* A number of the program that may be NaN: NaN, or Fin(v) for the number v.
NaN == << >>
Fin(v) == << v >>

\* A Date is Some(its time value).  An Invalid Date is an object, so truthy,
\* whose time value is NaN.
InvalidDate == Some(NaN)

\* The first pattern of datePatterns, /(\d{4})-(\d{1,2})-(\d{1,2})/, then the
\* year-only pattern /(\d{4})/.  new Date(match[0]) raises nothing: a month or
\* a day out of range gives an Invalid Date.  The other patterns of
\* datePatterns (slashes, day first, month names) match no title of the
\* model.
ParseExpirationDate(title) ==
    LET s == ToLowerCase(title)
        digitAt(i) == i <= Len(s) /\ IsDigit(SubSeq(s, i, i))
        dashAt(i) == i <= Len(s) /\ SubSeq(s, i, i) = "-"
        \* the length of the month matched at i, 0 for no match at i
        monthLength(i) ==
            IF ~(FourDigitsAt(s, i) /\ dashAt(i + 4) /\ digitAt(i + 5)) THEN 0
            ELSE IF digitAt(i + 6) /\ dashAt(i + 7) /\ digitAt(i + 8) THEN 2
            ELSE IF dashAt(i + 6) /\ digitAt(i + 7) THEN 1
            ELSE 0
        \* the number written with the one or two digits at i
        number(i) ==
            IF digitAt(i + 1)
            THEN DigitValue(SubSeq(s, i, i)) * 10
                 + DigitValue(SubSeq(s, i + 1, i + 1))
            ELSE DigitValue(SubSeq(s, i, i))
        yearAt(i) == number(i) * 100 + number(i + 2)
        daysBefore == << 0, 31, 59, 90, 120, 151, 181, 212, 243, 273, 304, 334 >>
        newDate(year, month, day) ==
            IF month \in 1..12 /\ day \in 1..31
            THEN Some(Fin(((year - 2024) * 365 + daysBefore[month] + day - 1)
                          * 24))
            ELSE InvalidDate
        dated == { i \in 1..Len(s) : monthLength(i) > 0 }
        years == { i \in 1..Len(s) : FourDigitsAt(s, i) }
        first(at) == CHOOSE a \in at : \A b \in at : a <= b
    IN  IF dated # {}
        THEN newDate(yearAt(first(dated)), number(first(dated) + 5),
                     number(first(dated) + 6 + monthLength(first(dated))))
        ELSE IF years # {} /\ yearAt(first(years)) >= 2024
                /\ yearAt(first(years)) <= 2030
        THEN Some(Fin(EndOfYear(yearAt(first(years)))))
        ELSE Null

ExpirationTable == [ t \in Titles |-> ParseExpirationDate(t) ]

GetHeuristicTimeAdjustment(market) ==
    LET has(w) == TitleIncludes(market.title, w)
    IN  IF has("2024") \/ has("end of year") THEN F(8, 10)
        ELSE IF has("2025") THEN Scale
        ELSE IF has("month") \/ has("30 days") THEN F(6, 10)
        ELSE IF has("week") \/ has("7 days") THEN F(4, 10)
        ELSE IF has("day") \/ has("24 hours") THEN F(2, 10)
        ELSE F(7, 10)

\* Math.sqrt(x) for 0 <= x <= 1
Sqrt(x) ==
    CHOOSE r \in 0..Scale : r * r <= x * Scale /\ (r + 1) * (r + 1) > x * Scale

\* timeToExpiration in days, to the return value
TimeDecayOf(timeToExpiration) ==
    IF timeToExpiration <= 0 THEN F(1, 10)
    ELSE Max(Sqrt(Min(timeToExpiration \div 365, Scale)), F(1, 10))

\* getTimeToExpirationAdjustment once parseExpirationDate has returned
TimeAdjustmentFor(market, expirationDate, now) ==
    IF IsNull(expirationDate) THEN GetHeuristicTimeAdjustment(market)
    ELSE TimeDecayOf(((Val(expirationDate)[1] - now) * Scale) \div 24)

\* for a market whose expiration date is null or a valid Date
GetTimeToExpirationAdjustment(market, now) ==
    TimeAdjustmentFor(market, ExpirationTable[market.title], now)

\* getTimeToExpirationAdjustment for any market.  With an Invalid Date,
\* expirationDate - now is NaN, NaN <= 0 is false, and Math.min, Math.sqrt
\* and Math.max each return NaN; nothing raises, so the catch block is not
\* entered.
GetTimeToExpirationAdjustmentN(market, now) ==
    IF ExpirationTable[market.title] = InvalidDate THEN NaN
    ELSE Fin(GetTimeToExpirationAdjustment(market, now))

-----------------------------------------------------------------------------
(* Volatility weight.  calculateProbabilityVolatility appends to          *)
(* this.probabilityHistory: the operators below return the result and the *)
(* map after the call, [ value |-> ..., ph |-> ... ].                     *)

\* history.length > 30: history.shift()
HistoryCap == 30

GetDefaultProbabilityVolatility(market) ==
    LET has(w) == TitleIncludes(market.title, w)
    IN  IF has("bitcoin") \/ has("btc") THEN F(15, 100)
        ELSE IF has("ethereum") \/ has("eth") THEN F(20, 100)
        ELSE IF has("regulatory") \/ has("sec") THEN F(25, 100)
        ELSE IF has("price") /\ has("reach") THEN F(30, 100)
        ELSE F(20, 100)

\* history.push(...) and the shift that keeps the last 30 points.  The
\* timestamp stored beside each probability is read nowhere and is left out.
PushProbability(prior, probability) ==
    IF Len(prior) + 1 > HistoryCap THEN Tail(Append(prior, probability))
    ELSE Append(prior, probability)

\* this.probabilityHistory after the push for the market
TrackProbability(ph, key, probability) ==
    [ k \in DOMAIN ph \cup { key } |->
        IF k = key
        THEN PushProbability(IF key \in DOMAIN ph THEN ph[key] ELSE << >>,
                             probability)
        ELSE ph[k] ]

ProbabilityChanges(history) ==
    [ i \in 1..(Len(history) - 1) |-> history[i + 1] - history[i] ]

\* the variance of the changes about their mean
VarianceAbout(changes, mean) ==
    SumSeq([ i \in 1..Len(changes) |->
               Mul(changes[i] - mean, changes[i] - mean) ]) \div Len(changes)

StdDev(changes) ==
    Sqrt(VarianceAbout(changes, SumSeq(changes) \div Len(changes)))

\* calculateProbabilityVolatility after the push, on the market's history
VolatilityOfHistory(market, history, now) ==
    IF Len(history) < 2 \/ Len(history) - 1 < 2
    THEN GetDefaultProbabilityVolatility(market)
    ELSE Div(Min(Mul(StdDev(ProbabilityChanges(history)),
                     GetTimeToExpirationAdjustment(market, now)),
                 F(5, 10)),
             F(5, 10))

VolatilityAfterPush(market, after, now) ==
    [ value |-> VolatilityOfHistory(market, after[market.conditionId], now),
      ph |-> after ]

CalculateProbabilityVolatility(market, ph, now) ==
    VolatilityAfterPush(market,
                        TrackProbability(ph, market.conditionId, market.avgPrice),
                        now)

\* the first entry of this.volatilityData whose symbol the title includes;
\* vd is the Map as the list of its entries in insertion order
CryptoVolatilityOf(market, vd) ==
    LET hits == { i \in 1..Len(vd) : TitleIncludes(market.title, vd[i].symbol) }
    IN  IF hits = {} THEN Null
        ELSE Some(vd[CHOOSE i \in hits : \A j \in hits : i <= j].volatility)

\* 1 - combinedVolatility; pv is calculateProbabilityVolatility's result
CombineVolatility(cryptoVolatility, pv) ==
    [ value |-> Scale - (IF ~IsNull(cryptoVolatility)
                         THEN Mul(F(7, 10), Val(cryptoVolatility))
                              + Mul(F(3, 10), pv.value)
                         ELSE pv.value),
      ph |-> pv.ph ]

CalculateVolatilityWeight(market, ph, vd, now) ==
    CombineVolatility(CryptoVolatilityOf(market, vd),
                      CalculateProbabilityVolatility(market, ph, now))

\* the weighted sum of calculateMarketWeight, clamped to [0, 1]; vw is
\* calculateVolatilityWeight's result
WeighFactors(market, vw, now) ==
    [ value |-> Min(Max(Mul(CalculateVolumeWeight(market, now), Sensitivity.volume)
                        + Mul(CalculateTimeWeight(market, now), Sensitivity.time)
                        + Mul(CalculateImpactWeight(market), Sensitivity.impact)
                        + Mul(CalculateMarketCapWeight(market),
                              Sensitivity.marketCap)
                        + Mul(vw.value, Sensitivity.volatility),
                        0),
                    Scale),
      ph |-> vw.ph ]

CalculateMarketWeight(market, ph, vd, now) ==
    WeighFactors(market, CalculateVolatilityWeight(market, ph, vd, now), now)

\* calculateMarketWeight for any market.  With a history of three points or
\* more and an Invalid Date, timeAdjustment is NaN and so are
\* adjustedVolatility, Math.min(adjustedVolatility, 0.5) / 0.5, the volatility
\* weight, the weighted sum, and Math.min(Math.max(totalWeight, 0), 1).
CalculateMarketWeightN(market, ph, vd, now) ==
    IF /\ Len(TrackProbability(ph, market.conditionId,
                               market.avgPrice)[market.conditionId]) >= 3
       /\ GetTimeToExpirationAdjustmentN(market, now) = NaN
    THEN NaN
    ELSE Fin(CalculateMarketWeight(market, ph, vd, now).value)

-----------------------------------------------------------------------------
(* Probability extraction *)

\* the rules of classifyMarketType with the yes/no rule tried before the
\* price-target rule; property C18 tells it from the order of the code
ClassifyBinaryFirst(title) ==
    LET has(w) == TitleIncludes(title, w)
    IN  IF has("between") /\ has("and") /\ (has("$") \/ has("price"))
        THEN "range"
        ELSE IF has("will") /\ (has("?") \/ has("happen") \/ has("say")
                                \/ has("pass") \/ has("win"))
        THEN "binary"
        ELSE IF /\ \/ has("reach") \/ has("hit") \/ has("above") \/ has("below")
                   \/ has("dip to") \/ has("go to") \/ has("touch")
                   \/ has("drop to") \/ has("fall to") \/ has("crash to")
                /\ (has("$") \/ has("price"))
        THEN "price_target"
        ELSE IF \/ has("up or down") \/ has("up/down")
                \/ has("bullish") \/ has("bearish")
        THEN "direction"
        ELSE "sentiment"

ClassifyMarketType(title) ==
    LET has(w) == TitleIncludes(title, w)
    IN  IF has("between") /\ has("and") /\ (has("$") \/ has("price"))
        THEN "range"
        ELSE IF /\ \/ has("reach") \/ has("hit") \/ has("above") \/ has("below")
                   \/ has("dip to") \/ has("go to") \/ has("touch")
                   \/ has("drop to") \/ has("fall to") \/ has("crash to")
                /\ (has("$") \/ has("price"))
        THEN "price_target"
        ELSE IF \/ has("up or down") \/ has("up/down")
                \/ has("bullish") \/ has("bearish")
        THEN "direction"
        ELSE IF has("will") /\ (has("?") \/ has("happen"))
        THEN "binary"
        ELSE IF has("will") /\ (has("say") \/ has("pass") \/ has("win"))
        THEN "binary"
        ELSE "sentiment"

ExtractBinaryProbability(market) == market.avgPrice * 100

\* every return statement of extractRangeProbability returns avgPrice * 100
ExtractRangeProbability(market) == market.avgPrice * 100

\* the buy volume over the sell volume: a ratio that is above 1 when buys
\* outweigh sells; property C16 tells it from the share of the code
ExtractBuyToSellRatio(market) ==
    IF market.sellVolume > 0
    THEN Div(market.buyVolume, market.sellVolume) * 100
    ELSE market.avgPrice * 100

ExtractSentimentProbability(market) ==
    LET totalVolume == market.buyVolume + market.sellVolume
    IN  IF totalVolume > 0
        THEN Div(market.buyVolume, totalVolume) * 100
        ELSE market.avgPrice * 100

\* the extractor the switch of calculateBullishProbability selects for a label
SwitchBranch(marketType) ==
    CASE marketType = "binary" -> "extractBinaryProbability"
      [] marketType = "directional" -> "extractDirectionalProbability"
      [] marketType = "price_prediction" -> "extractPricePredictionProbability"
      [] marketType = "range" -> "extractRangeProbability"
      [] OTHER -> "extractSentimentProbability"

\* The switch also has the cases 'directional' and 'price_prediction';
\* classifyMarketType returns neither label, so they are never taken.
CalculateBullishProbability(market) ==
    LET marketType == ClassifyMarketType(market.title)
    IN  CASE marketType = "binary" -> ExtractBinaryProbability(market)
          [] marketType = "range"  -> ExtractRangeProbability(market)
          [] OTHER                 -> ExtractSentimentProbability(market)

-----------------------------------------------------------------------------
(* Category aggregation *)

\* cryptoMarkets.filter(...) of calculateCategoryIndex
CategoryMarkets(keywords, cryptoMarkets) ==
    SelectSeq(cryptoMarkets, LAMBDA m : SomeKeyword(keywords, m.title))

\* one turn of the for loop of calculateCategoryIndex; mw is
\* calculateMarketWeight's result for the market
AddMarket(acc, probability, mw) ==
    IF mw.value > 0
    THEN [ twp |-> acc.twp + Mul(probability, mw.value),
           tw  |-> acc.tw + mw.value,
           ph  |-> mw.ph ]
    ELSE [ acc EXCEPT !.ph = mw.ph ]

\* the for loop of calculateCategoryIndex over categoryMarkets[i..]
RECURSIVE CategoryLoop(_, _, _, _, _)
CategoryLoop(categoryMarkets, i, acc, vd, now) ==
    IF i > Len(categoryMarkets) THEN acc
    ELSE CategoryLoop(categoryMarkets, i + 1,
             AddMarket(acc, CalculateBullishProbability(categoryMarkets[i]),
                       CalculateMarketWeight(categoryMarkets[i], acc.ph, vd, now)),
             vd, now)

\* totalWeight > 0 ? totalWeightedProbability / totalWeight : null
CategoryIndexOf(done) ==
    [ value |-> IF done.tw > 0 THEN Some(Div(done.twp, done.tw)) ELSE Null,
      ph |-> done.ph ]

\* [ value |-> the category index or null, ph |-> probabilityHistory after ].
\* With no market in the category the loop runs no turn and leaves the
\* total weight 0: null, as the early return of the code.
CalculateCategoryIndex(keywords, cryptoMarkets, ph, vd, now) ==
    CategoryIndexOf(CategoryLoop(CategoryMarkets(keywords, cryptoMarkets), 1,
                                 [ twp |-> 0, tw |-> 0, ph |-> ph ], vd, now))

\* isMarketInCategory: the title only
MarketsInCategory(keywords, cryptoMarkets) ==
    SelectSeq(cryptoMarkets, LAMBDA m : SomeKeyword(keywords, m.title))

Average(values, default) ==
    IF Len(values) = 0 THEN default ELSE SumSeq(values) \div Len(values)

VolumeWeights(ms, now) ==
    [ i \in 1..Len(ms) |-> CalculateVolumeWeight(ms[i], now) ]

TimeAdjustments(ms, now) ==
    [ i \in 1..Len(ms) |-> GetTimeToExpirationAdjustment(ms[i], now) ]

CalculateCategoryVolumeWeight(keywords, cryptoMarkets, now) ==
    Average(VolumeWeights(MarketsInCategory(keywords, cryptoMarkets), now),
            F(5, 10))

CalculateCategoryTimeWeight(keywords, cryptoMarkets, now) ==
    Average(TimeAdjustments(MarketsInCategory(keywords, cryptoMarkets), now),
            F(5, 10))

CalculateOverallTimeDecay(cryptoMarkets, now) ==
    Average(TimeAdjustments(cryptoMarkets, now), Scale)

-----------------------------------------------------------------------------
(* calculateIndex after its trade fetch has returned.  st is the engine    *)
(* state [ currentIndex, historicalValues, categoryIndices, lastUpdate,    *)
(* probabilityHistory, lastProcessedMarkets ]; the result is the state     *)
(* after the tick, with what the tick logged (outcome, pruned).            *)

EngineState ==
    [ currentIndex |-> currentIndex, historicalValues |-> historicalValues,
      categoryIndices |-> categoryIndices, lastUpdate |-> lastUpdate,
      probabilityHistory |-> probabilityHistory,
      lastProcessedMarkets |-> lastProcessedMarkets ]

Logged(st, outcome, pruned) ==
    [ st |-> st, outcome |-> outcome, pruned |-> pruned ]

\* a catch block that falls back to the baseline; calculateIndex has no such
\* reset, and property C2 tells the two apart
ResetOnFailure(st) == [ st EXCEPT !.currentIndex = BaselineValue ]

\* the catch block: console.error only
OnFetchFailure(st) == st

\* cryptoTrades.length === 0: return
OnNoCryptoTrades(st) == st

\* categoryIndices[category] = categoryIndex
SetCategoryIndex(indices, category, value) ==
    [ c \in DOMAIN indices \cup { category } |->
        IF c = category THEN value ELSE indices[c] ]

\* one turn of the for loop over this.marketCategories; ci is
\* calculateCategoryIndex's result, combinedWeight = volumeWeight * timeWeight
AddCategory(acc, category, ci, combinedWeight) ==
    IF IsNull(ci.value)
    THEN [ acc EXCEPT
             !.categoryIndices = SetCategoryIndex(@, category, ci.value),
             !.ph = ci.ph ]
    ELSE [ categoryIndices |->
               SetCategoryIndex(acc.categoryIndices, category, ci.value),
           twp |-> acc.twp + Mul(Mul(Val(ci.value), combinedWeight),
                                 CategoryWeights[category]),
           tw  |-> acc.tw + CategoryWeights[category],
           ph  |-> ci.ph ]

\* the for loop over this.marketCategories, from category i on
RECURSIVE CategoriesLoop(_, _, _, _, _)
CategoriesLoop(i, acc, cryptoMarkets, vd, now) ==
    IF i > Len(MarketCategories) THEN acc
    ELSE CategoriesLoop(i + 1,
             AddCategory(acc, MarketCategories[i].name,
                 CalculateCategoryIndex(MarketCategories[i].keywords,
                                        cryptoMarkets, acc.ph, vd, now),
                 Mul(CalculateCategoryVolumeWeight(MarketCategories[i].keywords,
                                                   cryptoMarkets, now),
                     CalculateCategoryTimeWeight(MarketCategories[i].keywords,
                                                 cryptoMarkets, now))),
             cryptoMarkets, vd, now)

\* a filter with > for >=: it drops the entry exactly one window old;
\* property C7 tells it from the filter of the code
PruneHistoryStrictly(history, now) ==
    SelectSeq(history, LAMBDA entry : entry.timestamp > now - SmoothingPeriod)

\* historicalValues.filter(entry => entry.timestamp >= oneHourAgo)
PruneHistory(history, now) ==
    SelectSeq(history, LAMBDA entry : entry.timestamp >= now - SmoothingPeriod)

\* no smoothing: the raw value of the tick; property C8 tells it from the
\* mean of the code
UnsmoothedIndex(history, rawIndex) == rawIndex

\* the smoothed index: the mean of the buffer, or the raw value if it is empty
SmoothedIndex(history, rawIndex) ==
    IF Len(history) > 0
    THEN SumSeq([ i \in 1..Len(history) |-> history[i].value ]) \div Len(history)
    ELSE rawIndex

\* the entry pushed to this.historicalValues; its accuracy field is read
\* nowhere and is left out
HistoryEntry(overallProbability, timeDecayFactor, now) ==
    [ timestamp |-> now,
      value |-> BaselineValue
                + (Mul(overallProbability, timeDecayFactor) - 50 * Scale),
      probability |-> overallProbability,
      timeDecay |-> timeDecayFactor,
      rawProbability |-> overallProbability ]

\* this.currentIndex from the pruned buffer
SetSmoothed(st, kept, rawIndex, pushedLength) ==
    Logged([ st EXCEPT !.historicalValues = kept,
                       !.currentIndex = SmoothedIndex(kept, rawIndex) ],
           "index", pushedLength - Len(kept))

\* the body of if (totalWeight > 0): push, prune, smooth
PushAndSmooth(st, entry, now) ==
    SetSmoothed(st, PruneHistory(Append(st.historicalValues, entry), now),
                entry.value, Len(st.historicalValues) + 1)

\* what every tick that reached the category loop assigns: lastProcessedMarkets
\* before the loop, probabilityHistory within it, categoryIndices and
\* lastUpdate after the if
AfterCategories(st, cryptoMarkets, loop, now) ==
    [ st EXCEPT !.categoryIndices = loop.categoryIndices,
                !.lastUpdate = Some(now),
                !.probabilityHistory = loop.ph,
                !.lastProcessedMarkets = Some(cryptoMarkets) ]

\* calculateIndex after the category loop
OnCategories(st, cryptoMarkets, loop, now) ==
    IF loop.tw > 0
    THEN PushAndSmooth(AfterCategories(st, cryptoMarkets, loop, now),
                       HistoryEntry(Div(loop.twp, loop.tw),
                                    CalculateOverallTimeDecay(cryptoMarkets, now),
                                    now),
                       now)
    ELSE Logged(AfterCategories(st, cryptoMarkets, loop, now), "noWeight", 0)

\* calculateIndex from processCryptoTrades on
OnCryptoMarkets(st, cryptoMarkets, vd, now) ==
    OnCategories(st, cryptoMarkets,
                 CategoriesLoop(1, [ categoryIndices |-> << >>, twp |-> 0,
                                     tw |-> 0, ph |-> st.probabilityHistory ],
                                cryptoMarkets, vd, now),
                 now)

\* calculateIndex from filterCryptoTrades's result on
OnCryptoTrades(st, cryptoTrades, vd, now) ==
    IF Len(cryptoTrades) = 0 THEN Logged(OnNoCryptoTrades(st), "noTrades", 0)
    ELSE OnCryptoMarkets(st, ProcessCryptoTrades(cryptoTrades), vd, now)

CalculateIndex(st, response, vd, now) ==
    IF ~response.success THEN Logged(OnFetchFailure(st), "error", 0)
    ELSE OnCryptoTrades(st, FilterCryptoTrades(response.data), vd, now)

-----------------------------------------------------------------------------
(* calculateIndex on markets whose expiration date may be an Invalid Date: *)
(* the same steps, with the numbers that depend on the time adjustments    *)
(* kept in arithmetic with NaN.                                            *)

\* an arithmetic operator of the program on numbers that may be NaN
NLift(op, a, b) ==
    IF a = NaN \/ b = NaN THEN NaN
    ELSE Fin(CASE op = "+" -> a[1] + b[1]
               [] op = "-" -> a[1] - b[1]
               [] op = "*" -> Mul(a[1], b[1])
               [] op = "/" -> Div(a[1], b[1]))

\* reduce((sum, x) => sum + x, 0) / length
MeanN(values) ==
    IF \E i \in 1..Len(values) : values[i] = NaN THEN NaN
    ELSE Fin(SumSeq([ i \in 1..Len(values) |-> values[i][1] ]) \div Len(values))

CalculateCategoryTimeWeightN(keywords, cryptoMarkets, now) ==
    LET ms == MarketsInCategory(keywords, cryptoMarkets)
    IN  IF Len(ms) = 0 THEN Fin(F(5, 10))
        ELSE MeanN([ i \in 1..Len(ms) |->
                       GetTimeToExpirationAdjustmentN(ms[i], now) ])

CalculateOverallTimeDecayN(cryptoMarkets, now) ==
    IF Len(cryptoMarkets) = 0 THEN Fin(Scale)
    ELSE MeanN([ i \in 1..Len(cryptoMarkets) |->
                   GetTimeToExpirationAdjustmentN(cryptoMarkets[i], now) ])

\* one turn of the for loop over this.marketCategories
AddCategoryN(acc, category, ci, volumeWeight, timeWeight) ==
    IF IsNull(ci.value)
    THEN [ acc EXCEPT
             !.categoryIndices = SetCategoryIndex(@, category, ci.value),
             !.ph = ci.ph ]
    ELSE [ categoryIndices |->
               SetCategoryIndex(acc.categoryIndices, category, ci.value),
           twp |-> NLift("+", acc.twp,
                     NLift("*", NLift("*", Fin(Val(ci.value)),
                                      NLift("*", Fin(volumeWeight), timeWeight)),
                           Fin(CategoryWeights[category]))),
           tw  |-> acc.tw + CategoryWeights[category],
           ph  |-> ci.ph ]

RECURSIVE CategoriesLoopN(_, _, _, _, _)
CategoriesLoopN(i, acc, cryptoMarkets, vd, now) ==
    IF i > Len(MarketCategories) THEN acc
    ELSE CategoriesLoopN(i + 1,
             AddCategoryN(acc, MarketCategories[i].name,
                 CalculateCategoryIndex(MarketCategories[i].keywords,
                                        cryptoMarkets, acc.ph, vd, now),
                 CalculateCategoryVolumeWeight(MarketCategories[i].keywords,
                                               cryptoMarkets, now),
                 CalculateCategoryTimeWeightN(MarketCategories[i].keywords,
                                              cryptoMarkets, now)),
             cryptoMarkets, vd, now)

\* calculateIndex after the category loop: what the tick leaves in
\* this.currentIndex, in the values of this.historicalValues (those already
\* there hold numbers) and in this.categoryIndices
OnCategoriesN(st, loop, timeDecayFactor, kept) ==
    LET value == NLift("+", Fin(BaselineValue),
                     NLift("-", NLift("*", NLift("/", loop.twp, Fin(loop.tw)),
                                    timeDecayFactor),
                           Fin(50 * Scale)))
        before == [ i \in 1..Len(kept) |-> Fin(kept[i].value) ]
    IN  IF loop.tw > 0
        THEN [ currentIndex |-> MeanN(Append(before, value)),
               values |-> Append(before, value),
               categoryIndices |-> loop.categoryIndices ]
        ELSE [ currentIndex |-> Fin(st.currentIndex),
               values |-> [ i \in 1..Len(st.historicalValues) |->
                              Fin(st.historicalValues[i].value) ],
               categoryIndices |-> loop.categoryIndices ]

\* calculateIndex on the summaries of a fetched batch with a crypto trade
CalculateIndexN(st, cryptoMarkets, vd, now) ==
    OnCategoriesN(st,
        CategoriesLoopN(1, [ categoryIndices |-> << >>, twp |-> Fin(0),
                             tw |-> 0, ph |-> st.probabilityHistory ],
                        cryptoMarkets, vd, now),
        CalculateOverallTimeDecayN(cryptoMarkets, now),
        PruneHistory(st.historicalValues, now))

-----------------------------------------------------------------------------
(* Inputs: what the collaborators may return *)

BoundedSeq(S, n) == UNION { [ 1..k -> S ] : k \in 0..n }

Trade(m, side, size, price, timestamp) ==
    [ conditionId |-> m, title |-> TitleOf[m], side |-> side, size |-> size,
      price |-> price, timestamp |-> timestamp ]

\* the trades a fetch at time now may hold
TickTrades(now) ==
    { Trade("m1", "BUY", 10 * Scale, F(6, 10), now),
      Trade("m3", "BUY", 10 * Scale, F(6, 10), now),
      Trade("m4", "BUY", 10 * Scale, F(6, 10), now) }

\* client.getCryptoTrades: ApiResponse(false, null, message) or
\* ApiResponse(true, trades)
FailedResponse == [ success |-> FALSE, data |-> << >> ]
Fetched(batch) == [ success |-> TRUE, data |-> batch ]

\* a client that reports a failed request as a successful empty batch;
\* property C19 tells it from the catch block of the code
GetCryptoTradesSwallowing(transport) ==
    [ success |-> TRUE, data |-> << >>, error |-> Null ]

\* getCryptoTrades.  transport is what this.client.get('/trades') does: it
\* rejects with an error that has a message (no answer, a timeout, a status
\* outside 2xx), or it responds with an array of trades.
GetCryptoTrades(transport) ==
    LET cryptoKeywords ==
            << "bitcoin", "btc", "ethereum", "eth", "crypto", "cryptocurrency",
               "solana", "sol", "cardano", "ada", "polkadot", "dot",
               "dogecoin", "doge", "litecoin", "ltc", "chainlink", "link",
               "avalanche", "avax", "polygon", "matic", "defi", "nft",
               "binance", "coinbase", "kraken", "exchange", "mining",
               "staking" >>
        excludeKeywords ==
            << "election", "mayor", "mayoral", "votes", "voting", "senate",
               "congress", "tennis", "sports", "championship", "tournament",
               "game", "match", "trump", "biden", "president", "political",
               "politics" >>
    IN  IF transport.rejects
        THEN [ success |-> FALSE, data |-> Null,
               error |-> Some(transport.message) ]
        ELSE [ success |-> TRUE,
               data |-> SelectSeq(transport.data,
                            LAMBDA t : /\ SomeKeyword(cryptoKeywords, t.title)
                                       /\ ~SomeKeyword(excludeKeywords, t.title)),
               error |-> Null ]

\* what fetchMarketData may store: nothing (every symbol failed, or the cached
\* data was still fresh) or a sample of volatilities and prices
SampleMarketData ==
    << [ symbol |-> "btc",  volatility |-> F(3, 10), price |-> 100000 * Scale ],
       [ symbol |-> "eth",  volatility |-> F(4, 10), price |-> 4000 * Scale ],
       [ symbol |-> "doge", volatility |-> F(9, 10), price |-> F(2, 10) ] >>

MarketDataOutcomes == { << >>, SampleMarketData }

\* Map.set for each fetched symbol: a new key goes last, a known key keeps
\* its place
RECURSIVE MapSetAll(_, _)
MapSetAll(map, entries) ==
    IF entries = << >> THEN map
    ELSE LET e == Head(entries)
             known == \E i \in 1..Len(map) : map[i].symbol = e.symbol
             next == IF known
                     THEN [ i \in 1..Len(map) |->
                              IF map[i].symbol = e.symbol THEN e ELSE map[i] ]
                     ELSE Append(map, e)
         IN  MapSetAll(next, Tail(entries))

-----------------------------------------------------------------------------
(* The state machine *)

\* WebSocketClient's constructor: an option left out (0 here) takes its default
ReconnectInterval == 5000

MaxReconnectAttempts == 10

\* options = {}
NoOptions == [ reconnectInterval |-> 0, maxReconnectAttempts |-> 0 ]

NewWebSocketClient(options) ==
    [ options |->
          [ reconnectInterval |->
                IF options.reconnectInterval = 0 THEN ReconnectInterval
                ELSE options.reconnectInterval,
            maxReconnectAttempts |->
                IF options.maxReconnectAttempts = 0 THEN MaxReconnectAttempts
                ELSE options.maxReconnectAttempts ],
      socket |-> "null",       \* this.ws: null, or the state of the socket
      isConnected |-> FALSE,
      reconnectAttempts |-> 0,
      reconnectTimer |-> Null, \* the delay of the pending timeout, if any
      closing |-> 0,           \* sockets closed by disconnect(), 'close' not yet emitted
      delays |-> << >>,        \* delays of the timeouts set since the last 'open'
      subscriptions |-> {},    \* this.subscriptions
      sent |-> {},             \* asset ids subscribed to on the current socket
      automatic |-> FALSE ]    \* the current socket was made by the reconnect timer

\* CryptoMarketAggregator's constructor: the two stores are empty maps
NewAggregator ==
    [ tradeDataCache |-> << >>,   \* this.tradeDataCache
      calculator |-> << >>,       \* this.calculator.tradeData
      received |-> << >> ]        \* the last trade messages the socket delivered

\* the API module as loaded: let cpmi; let cpmiStarted = false
NewApi ==
    [ cpmi |-> 0,              \* the instance cpmi refers to (0: undefined)
      cpmiStarted |-> FALSE,
      instances |-> << >>,     \* the instances created: has start() set a timer
      requests |-> << >> ]     \* the calls of initializeCPMI and where they are

InitEngine ==
    /\ currentIndex = BaselineValue
    /\ historicalValues = << >>
    /\ categoryIndices = << >>
    /\ lastUpdate = Null
    /\ isRunning = FALSE
    /\ timers = {}
    /\ updateInterval = 0
    /\ startPc = "idle"
    /\ inFlight = 0
    /\ volatilityData = << >>
    /\ marketCapData = << >>
    /\ probabilityHistory = << >>
    /\ lastProcessedMarkets = Null
    /\ clock = StartTime
    /\ tickLog = [ fetched |-> 0, outcome |-> "none", pruned |-> 0 ]

Init ==
    /\ InitEngine
    /\ fnIn = << >>
    /\ fnOut = << >>
    /\ ws = NewWebSocketClient(NoOptions)
    /\ aggregator = NewAggregator
    /\ api = NewApi

\* the state after a tick: r is calculateIndex's result
Commit(r, response) ==
    /\ currentIndex' = r.st.currentIndex
    /\ historicalValues' = r.st.historicalValues
    /\ categoryIndices' = r.st.categoryIndices
    /\ lastUpdate' = r.st.lastUpdate
    /\ probabilityHistory' = r.st.probabilityHistory
    /\ lastProcessedMarkets' = r.st.lastProcessedMarkets
    /\ tickLog' = [ fetched |-> tickLog.fetched
                                + (IF response.success THEN 1 ELSE 0),
                    outcome |-> r.outcome, pruned |-> r.pruned ]

\* the part of calculateIndex after its await, applied to the state
Resume(response) ==
    Commit(CalculateIndex(EngineState, response, volatilityData, clock),
           response)

engineVars == << currentIndex, historicalValues, categoryIndices, lastUpdate,
                 probabilityHistory, lastProcessedMarkets, tickLog >>

\* start() is called and awaits client.healthCheck()
Start ==
    /\ startPc = "idle"
    /\ updateInterval < MaxTimers
    /\ startPc' = "health"
    /\ UNCHANGED << engineVars, isRunning, timers, updateInterval, inFlight,
                    volatilityData, marketCapData, clock, fnIn, fnOut, ws,
                    aggregator, api >>

\* the health check failed: start() throws, catches and returns false
HealthCheckFails ==
    /\ startPc = "health"
    /\ startPc' = "idle"
    /\ UNCHANGED << engineVars, isRunning, timers, updateInterval, inFlight,
                    volatilityData, marketCapData, clock, fnIn, fnOut, ws,
                    aggregator, api >>

\* the health check succeeded: start() awaits fetchMarketData()
HealthCheckSucceeds ==
    /\ startPc = "health"
    /\ startPc' = "marketData"
    /\ UNCHANGED << engineVars, isRunning, timers, updateInterval, inFlight,
                    volatilityData, marketCapData, clock, fnIn, fnOut, ws,
                    aggregator, api >>

\* fetchMarketData() returns; start() sets isRunning and calls
\* calculateIndex(), which awaits its trade fetch
FetchMarketDataReturns ==
    /\ startPc = "marketData"
    /\ \E data \in MarketDataOutcomes :
          /\ volatilityData' =
                MapSetAll(volatilityData,
                          [ i \in 1..Len(data) |->
                              [ symbol |-> data[i].symbol,
                                volatility |-> data[i].volatility ] ])
          /\ marketCapData' =
                MapSetAll(marketCapData,
                          [ i \in 1..Len(data) |->
                              [ symbol |-> data[i].symbol,
                                price |-> data[i].price ] ])
    /\ isRunning' = TRUE
    /\ startPc' = "firstTick"
    /\ UNCHANGED << engineVars, timers, updateInterval, inFlight, clock,
                    fnIn, fnOut, ws,
                    aggregator, api >>

\* setInterval(...) of start(), reached when the awaited first tick is over
SetInterval ==
    /\ updateInterval' = updateInterval + 1
    /\ timers' = timers \cup { updateInterval + 1 }
    /\ startPc' = "idle"

\* the first tick's fetch fails; start() goes on to set its timer
FirstFetchFails ==
    /\ startPc = "firstTick"
    /\ Resume(FailedResponse)
    /\ SetInterval
    /\ UNCHANGED << isRunning, inFlight, volatilityData, marketCapData, clock,
                    fnIn, fnOut, ws,
                    aggregator, api >>

\* the first tick's fetch returns a batch; start() goes on to set its timer
FirstFetchSucceeds ==
    /\ startPc = "firstTick"
    /\ tickLog.fetched < MaxFetched
    /\ \E batch \in BoundedSeq(TickTrades(clock), MaxBatch) :
          Resume(Fetched(batch))
    /\ SetInterval
    /\ UNCHANGED << isRunning, inFlight, volatilityData, marketCapData, clock,
                    fnIn, fnOut, ws,
                    aggregator, api >>

\* stop(): clearInterval of the handle kept in this.updateInterval
Stop ==
    /\ isRunning' = FALSE
    /\ timers' = timers \ { updateInterval }
    /\ UNCHANGED << engineVars, updateInterval, startPc, inFlight,
                    volatilityData, marketCapData, clock, fnIn, fnOut, ws,
                    aggregator, api >>

\* a timer's callback: if (this.isRunning) this.calculateIndex()
TimerFires ==
    /\ \E id \in timers : TRUE
    /\ inFlight < MaxInFlight
    /\ inFlight' = IF isRunning THEN inFlight + 1 ELSE inFlight
    /\ UNCHANGED << engineVars, isRunning, timers, updateInterval, startPc,
                    volatilityData, marketCapData, clock, fnIn, fnOut, ws,
                    aggregator, api >>

\* the trade fetch of a tick begun by a timer fails
FetchFails ==
    /\ inFlight > 0
    /\ inFlight' = inFlight - 1
    /\ Resume(FailedResponse)
    /\ UNCHANGED << isRunning, timers, updateInterval, startPc,
                    volatilityData, marketCapData, clock, fnIn, fnOut, ws,
                    aggregator, api >>

\* the trade fetch of a tick begun by a timer returns a batch
FetchSucceeds ==
    /\ inFlight > 0
    /\ tickLog.fetched < MaxFetched
    /\ inFlight' = inFlight - 1
    /\ \E batch \in BoundedSeq(TickTrades(clock), MaxBatch) :
          Resume(Fetched(batch))
    /\ UNCHANGED << isRunning, timers, updateInterval, startPc,
                    volatilityData, marketCapData, clock, fnIn, fnOut, ws,
                    aggregator, api >>

\* time passes
Advance ==
    /\ clock < StartTime + MaxElapsed
    /\ clock' = clock + 1
    /\ UNCHANGED << engineVars, isRunning, timers, updateInterval, startPc,
                    inFlight, volatilityData, marketCapData, fnIn, fnOut, ws,
                    aggregator, api >>

-----------------------------------------------------------------------------
(* The exposed read operations *)

\* `Bullish (+d)`, `Bearish (d)` or 'Neutral (0.0)', d to one decimal
GetIndexInterpretation ==
    LET tenths == ((currentIndex - 100 * Scale) * 10 + Scale \div 2) \div Scale
    IN  IF currentIndex > 100 * Scale THEN << "Bullish", tenths >>
        ELSE IF currentIndex < 100 * Scale THEN << "Bearish", tenths >>
        ELSE << "Neutral", 0 >>

GetCurrentIndex ==
    [ value |-> currentIndex,
      interpretation |-> GetIndexInterpretation,
      lastUpdate |-> lastUpdate,
      categoryIndices |-> categoryIndices,
      historicalValues |->
          SubSeq(historicalValues, Max(1, Len(historicalValues) - 9),
                 Len(historicalValues)) ]

GetCategoryBreakdown ==
    [ c \in { d \in DOMAIN categoryIndices : ~IsNull(categoryIndices[d]) } |->
        LET index == Val(categoryIndices[c])
        IN  [ index |-> index,
              weight |-> CategoryWeights[c],
              interpretation |-> IF index > 50 * Scale THEN "Bullish"
                                 ELSE "Bearish",
              deviation |-> index - 50 * Scale ] ]

GetIndexStatistics ==
    IF Len(historicalValues) = 0 THEN Null
    ELSE LET n == Len(historicalValues)
             values == [ i \in 1..n |-> historicalValues[i].value ]
             avg == SumSeq(values) \div n
             variance == SumSeq([ i \in 1..n |->
                            Mul(values[i] - avg, values[i] - avg) ]) \div n
         IN  Some([ min |-> CHOOSE v \in Range(values) :
                                \A w \in Range(values) : v <= w,
                    max |-> CHOOSE v \in Range(values) :
                                \A w \in Range(values) : v >= w,
                    average |-> avg,
                    volatility |-> CHOOSE r \in 0..(100 * Scale) :
                                      /\ r * r <= variance * Scale
                                      /\ (r + 1) * (r + 1) > variance * Scale,
                    dataPoints |-> n,
                    timeRange |-> [ start |-> historicalValues[1].timestamp,
                                    end |-> historicalValues[n].timestamp ] ])

\* getIndividualMarkets: the map over this.lastProcessedMarkets calls
\* calculateMarketWeight for every market; the result is probabilityHistory
\* after the calls
RECURSIVE IndividualMarketsLoop(_, _, _, _, _)
IndividualMarketsLoop(markets, i, ph, vd, now) ==
    IF i > Len(markets) THEN ph
    ELSE IndividualMarketsLoop(markets, i + 1,
             CalculateMarketWeight(markets[i], ph, vd, now).ph, vd, now)

GetIndividualMarkets(ph, vd, now) ==
    IF IsNull(lastProcessedMarkets) THEN ph
    ELSE IndividualMarketsLoop(Val(lastProcessedMarkets), 1, ph, vd, now)

GetCurrentIndexCall == UNCHANGED vars

GetCategoryBreakdownCall == UNCHANGED vars

GetIndexStatisticsCall == UNCHANGED vars

\* exportIndexData: the three reads above, then getIndividualMarkets
ExportIndexData ==
    /\ \A k \in DOMAIN probabilityHistory :
          Len(probabilityHistory[k]) < MaxTracked
    /\ probabilityHistory' =
          GetIndividualMarkets(probabilityHistory, volatilityData, clock)
    /\ UNCHANGED << currentIndex, historicalValues, categoryIndices, lastUpdate,
                    lastProcessedMarkets, tickLog, isRunning, timers,
                    updateInterval, startPc, inFlight, volatilityData,
                    marketCapData, clock, fnIn, fnOut, ws,
                    aggregator, api >>

Next ==
    \/ Start
    \/ HealthCheckFails
    \/ HealthCheckSucceeds
    \/ FetchMarketDataReturns
    \/ FirstFetchFails
    \/ FirstFetchSucceeds
    \/ Stop
    \/ TimerFires
    \/ FetchFails
    \/ FetchSucceeds
    \/ Advance
    \/ GetCurrentIndexCall
    \/ GetCategoryBreakdownCall
    \/ GetIndexStatisticsCall
    \/ ExportIndexData

Spec == Init /\ [][Next]_vars

-----------------------------------------------------------------------------
(* start() and stop() called any number of times on one instance *)

MaxStarts == 2       \* timers set per behaviour when start() is called again

\* start() is called on an instance that has been started before
StartAgain ==
    /\ startPc = "idle"
    /\ updateInterval >= MaxTimers
    /\ updateInterval < MaxStarts
    /\ startPc' = "health"
    /\ UNCHANGED << engineVars, isRunning, timers, updateInterval, inFlight,
                    volatilityData, marketCapData, clock, fnIn, fnOut, ws,
                    aggregator, api >>

LifecycleNext ==
    \/ Start
    \/ StartAgain
    \/ HealthCheckFails
    \/ HealthCheckSucceeds
    \/ FetchMarketDataReturns
    \/ FirstFetchFails
    \/ FirstFetchSucceeds
    \/ Stop
    \/ TimerFires
    \/ FetchFails
    \/ FetchSucceeds

LifecycleSpec == Init /\ [][LifecycleNext]_vars

-----------------------------------------------------------------------------
(* processCryptoTrades alone, on batches whose trades differ in market,    *)
(* side and timestamp: fnIn is the batch, fnOut the summaries once the     *)
(* call has returned.                                                      *)

AggregatorTrades ==
    { Trade(m, side, 10 * Scale, F(6, 10), t) :
        m \in { "m1", "m2" }, side \in { "BUY", "SELL" },
        t \in { StartTime, StartTime + 1 } }

AggregatorInit ==
    /\ InitEngine
    /\ fnIn \in BoundedSeq(AggregatorTrades, MaxBatch)
    /\ fnOut = << >>
    /\ ws = NewWebSocketClient(NoOptions)
    /\ aggregator = NewAggregator
    /\ api = NewApi

ProcessCryptoTradesCall ==
    /\ fnOut = << >>
    /\ fnOut' = << ProcessCryptoTrades(fnIn) >>
    /\ UNCHANGED << engineVars, isRunning, timers, updateInterval, startPc,
                    inFlight, volatilityData, marketCapData, clock, fnIn, ws,
                    aggregator, api >>

AggregatorNext == ProcessCryptoTradesCall

AggregatorSpec == AggregatorInit /\ [][AggregatorNext]_vars

-----------------------------------------------------------------------------
(* The functions of the engine called alone on a fresh engine.  fnIn is a  *)
(* fetched batch of crypto trades, each with a size of 0 or more and a     *)
(* price from 0 to 1; fnOut is empty until the call has returned, and then *)
(* holds the name of the function called and its result.                   *)

FunctionTrades ==
    { Trade(m, side, size, price, StartTime) :
        m \in { "m1", "m2", "m3", "m4", "m6", "m7", "m8", "m9" },
        side \in { "BUY", "SELL" },
        size \in { 0, 5 * Scale, 10 * Scale }, price \in { 0, F(6, 10), Scale } }

FunctionInit ==
    /\ InitEngine
    /\ fnIn \in BoundedSeq(FunctionTrades, MaxBatch) \ { << >> }
    /\ fnOut = << >>
    /\ ws = NewWebSocketClient(NoOptions)
    /\ aggregator = NewAggregator
    /\ api = NewApi

Returns(fn, result) ==
    /\ fnOut' = << [ fn |-> fn, result |-> result ] >>
    /\ UNCHANGED << engineVars, isRunning, timers, updateInterval, startPc,
                    inFlight, volatilityData, marketCapData, clock, fnIn, ws,
                    aggregator, api >>

\* one tick whose fetch returned the batch
CalculateIndexCall ==
    /\ fnOut = << >>
    /\ Returns("calculateIndex",
               CalculateIndexN(EngineState, ProcessCryptoTrades(fnIn),
                               volatilityData, clock))

\* calculateBullishProbability on the first summary of the batch
CalculateBullishProbabilityCall ==
    /\ fnOut = << >>
    /\ LET market == ProcessCryptoTrades(fnIn)[1]
       IN  Returns("calculateBullishProbability",
                   [ market |-> market,
                     probability |-> CalculateBullishProbability(market) ])

\* what this.probabilityHistory may hold for a market before the call
PriorHistories == { << >> } \cup [ 1..MaxTracked -> { 0, Scale } ]

\* calculateMarketWeight on the first summary of the batch
CalculateMarketWeightCall ==
    /\ fnOut = << >>
    /\ \E prior \in PriorHistories :
         LET market == ProcessCryptoTrades(fnIn)[1]
         IN  Returns("calculateMarketWeight",
                     [ market |-> market, prior |-> prior,
                       weight |-> CalculateMarketWeightN(market,
                                      [ k \in { market.conditionId } |-> prior ],
                                      volatilityData, clock) ])

\* classifyMarketType on the title of the first trade
ClassifyMarketTypeCall ==
    /\ fnOut = << >>
    /\ Returns("classifyMarketType",
               [ title |-> fnIn[1].title,
                 type |-> ClassifyMarketType(fnIn[1].title) ])

FunctionNext ==
    \/ CalculateIndexCall
    \/ CalculateBullishProbabilityCall
    \/ CalculateMarketWeightCall
    \/ ClassifyMarketTypeCall

FunctionSpec == FunctionInit /\ [][FunctionNext]_vars

-----------------------------------------------------------------------------
(* One tick of a fresh engine with the client in front of the transport.   *)
(* fnIn is what the transport does; fnOut is empty until the tick has      *)
(* returned, and then holds the client's response and what the tick left.  *)

ClientInit ==
    /\ InitEngine
    /\ fnIn \in
          { [ rejects |-> TRUE, message |-> m, data |-> << >> ] :
              m \in { "Network Error", "timeout of 30000ms exceeded",
                      "Request failed with status code 500" } }
          \cup { [ rejects |-> FALSE, message |-> "", data |-> batch ] :
                   batch \in BoundedSeq(
                       { Trade(m, side, 10 * Scale, F(6, 10), StartTime) :
                           m \in { "m1", "m3", "m4", "m10" },
                           side \in { "BUY", "SELL" } },
                       MaxBatch) }
    /\ fnOut = << >>
    /\ ws = NewWebSocketClient(NoOptions)
    /\ aggregator = NewAggregator
    /\ api = NewApi

\* calculateIndex with its call of getCryptoTrades
CalculateIndexThroughClient ==
    /\ fnOut = << >>
    /\ LET response == GetCryptoTrades(fnIn)
       IN  Returns("calculateIndex",
                   [ response |-> response,
                     tick |-> CalculateIndex(EngineState, response,
                                             volatilityData, clock) ])

ClientNext == CalculateIndexThroughClient

ClientSpec == ClientInit /\ [][ClientNext]_vars

-----------------------------------------------------------------------------
(* The WebSocket client: connect, the socket's events, handleReconnect *)

\* the reconnection options a caller passes (0: left out)
WebSocketOptions ==
    [ reconnectInterval : { 0, 1000 }, maxReconnectAttempts : { 0, 3 } ]

WebSocketInit ==
    /\ InitEngine
    /\ fnIn = << >>
    /\ fnOut = << >>
    /\ ws \in { NewWebSocketClient(options) : options \in WebSocketOptions }
    /\ aggregator = NewAggregator
    /\ api = NewApi

\* handleReconnect() without its limit
HandleReconnectUnlimited(w) ==
    [ w EXCEPT
        !.reconnectAttempts = @ + 1,
        !.reconnectTimer = Some(w.options.reconnectInterval),
        !.delays = Append(@, w.options.reconnectInterval) ]

\* handleReconnect(), called on the client w by the 'close' handler
HandleReconnect(w) ==
    IF w.reconnectAttempts >= w.options.maxReconnectAttempts
    THEN w
    ELSE [ w EXCEPT
             !.reconnectAttempts = @ + 1,
             !.reconnectTimer = Some(w.options.reconnectInterval),
             !.delays = Append(@, w.options.reconnectInterval) ]

\* connect() called by the owner of an idle client
Connect ==
    /\ ws.socket = "null"
    /\ IsNull(ws.reconnectTimer)
    /\ ws.closing = 0
    /\ ws' = [ ws EXCEPT !.socket = "connecting", !.sent = {},
                         !.automatic = FALSE ]
    /\ UNCHANGED << engineVars, isRunning, timers, updateInterval, startPc,
                    inFlight, volatilityData, marketCapData, clock, fnIn,
                    fnOut, aggregator, api >>

\* a subscribe message for the asset ids is sent and the ids are tracked
SubscribeToMarket(w, assetIds) ==
    [ w EXCEPT !.sent = @ \cup assetIds,
               !.subscriptions = @ \cup assetIds ]

\* resubscribe() forgetting the subscriptions
ResubscribeNothing(w) == w

\* resubscribe()
Resubscribe(w) ==
    IF w.subscriptions # {} THEN SubscribeToMarket(w, w.subscriptions) ELSE w

\* the socket emits 'open'; connect() resolves, and the reconnect timer's
\* callback goes on to resubscribe()
OnOpen ==
    /\ ws.socket = "connecting"
    /\ LET opened == [ ws EXCEPT !.socket = "open", !.isConnected = TRUE,
                                 !.reconnectAttempts = 0, !.delays = << >> ]
       IN  ws' = IF ws.automatic THEN Resubscribe(opened) ELSE opened
    /\ UNCHANGED << engineVars, isRunning, timers, updateInterval, startPc,
                    inFlight, volatilityData, marketCapData, clock, fnIn,
                    fnOut, aggregator, api >>

\* 'close' is emitted by the current socket (the connection dropped, or the
\* attempt to connect failed) or by a socket that disconnect() has closed
OnClose ==
    /\ \/ /\ ws.socket \in { "connecting", "open" }
          /\ ws' = HandleReconnect([ ws EXCEPT !.socket = "closed",
                                               !.sent = {},
                                               !.isConnected = FALSE ])
       \/ /\ ws.closing > 0
          /\ ws' = HandleReconnect([ ws EXCEPT !.closing = @ - 1,
                                               !.isConnected = FALSE ])
    /\ UNCHANGED << engineVars, isRunning, timers, updateInterval, startPc,
                    inFlight, volatilityData, marketCapData, clock, fnIn,
                    fnOut, aggregator, api >>

\* the timeout set by handleReconnect expires: connect() again
ReconnectTimerFires ==
    /\ ~IsNull(ws.reconnectTimer)
    /\ ws' = [ ws EXCEPT !.reconnectTimer = Null, !.socket = "connecting",
                         !.sent = {}, !.automatic = TRUE ]
    /\ UNCHANGED << engineVars, isRunning, timers, updateInterval, startPc,
                    inFlight, volatilityData, marketCapData, clock, fnIn,
                    fnOut, aggregator, api >>

\* disconnect()
Disconnect ==
    /\ ws.socket # "null" \/ ~IsNull(ws.reconnectTimer)
    /\ ws' = [ ws EXCEPT
                 !.closing = IF ws.socket \in { "connecting", "open" }
                             THEN @ + 1 ELSE @,
                 !.socket = "null",
                 !.sent = {},
                 !.isConnected = FALSE,
                 !.reconnectTimer = Null ]
    /\ UNCHANGED << engineVars, isRunning, timers, updateInterval, startPc,
                    inFlight, volatilityData, marketCapData, clock, fnIn,
                    fnOut, aggregator, api >>

\* the owner calls subscribeToMarket(assetIds) or
\* unsubscribeFromMarket(assetIds); both throw when not connected
SubscriptionCall ==
    /\ ws.isConnected
    /\ ws.socket = "open"
    /\ \E assetIds \in (SUBSET { "BTC-USD", "ETH-USD" }) \ { {} } :
         \/ ws' = SubscribeToMarket(ws, assetIds)
         \/ ws' = [ ws EXCEPT !.sent = @ \ assetIds,
                              !.subscriptions = @ \ assetIds ]
    /\ UNCHANGED << engineVars, isRunning, timers, updateInterval, startPc,
                    inFlight, volatilityData, marketCapData, clock, fnIn,
                    fnOut, aggregator, api >>

WebSocketNext ==
    \/ Connect
    \/ SubscriptionCall
    \/ OnOpen
    \/ OnClose
    \/ ReconnectTimerFires
    \/ Disconnect

WebSocketSpec == WebSocketInit /\ [][WebSocketNext]_vars

-----------------------------------------------------------------------------
(* The market aggregator: trade updates from the socket, the calculator,   *)
(* calculateWeightedAverage and cleanupOldData.  An object is a record of  *)
(* its own properties; a property value is Null (undefined) or Some(v).     *)

MaxStored == 2       \* trades added by the owner; delivered messages remembered
MaxDays == 2         \* days that may pass

\* maxAge = 24 * 60 * 60 * 1000 ms = 24 clock units
CleanupMaxAge == 24

\* object[name]
Prop(object, name) == IF name \in DOMAIN object THEN object[name] ELSE Null

\* parseFloat of a property holding a number (or nothing)
ParseFloat(value) == IF IsNull(value) THEN NaN ELSE Val(value)

\* message.data of the trade messages received at time now: the well-formed
\* ones, and some with a wrong side, a negative price or no trade_id
TradeMessages(now) ==
    LET wellFormed(asset, side, price) ==
            [ trade_id |-> Some("t1"), asset_id |-> Some(asset),
              price |-> Some(Fin(price)), volume |-> Some(Fin(10 * Scale)),
              timestamp |-> Some(Fin(now)), side |-> Some(side) ]
    IN  { wellFormed("BTC-USD", "buy", F(6, 10)),
          wellFormed("BTC-USD", "sell", F(5, 10)),
          wellFormed("ETH-USD", "buy", F(6, 10)),
          wellFormed("BTC-USD", "hold", F(6, 10)),
          wellFormed("BTC-USD", "buy", 0 - Scale),
          [ asset_id |-> Some("BTC-USD"), price |-> Some(Fin(F(4, 10))),
            volume |-> Some(Fin(10 * Scale)),
            timestamp |-> Some(Fin(now)), side |-> Some("sell") ] }

\* new TradeData(data)
NewTradeData(data) ==
    [ constructor |-> Some("TradeData"),
      tradeId |-> Prop(data, "trade_id"),
      assetId |-> Prop(data, "asset_id"),
      price |-> Some(ParseFloat(Prop(data, "price"))),
      volume |-> Some(ParseFloat(Prop(data, "volume"))),
      timestamp |-> Some(ParseFloat(Prop(data, "timestamp"))),
      side |-> Prop(data, "side"),
      maker |-> Prop(data, "maker"),
      taker |-> Prop(data, "taker") ]

\* DataValidator.validateTradeData(data), data an object
ValidateTradeData(data) ==
    LET requiredFields == << "trade_id", "asset_id", "price", "volume",
                             "timestamp", "side" >>
        missing == SelectSeq(requiredFields, LAMBDA field : field \notin DOMAIN data)
        side == Prop(data, "side")
        invalidNumber(value) ==
            /\ ~IsNull(value)
            /\ ParseFloat(value) = NaN \/ ParseFloat(value)[1] < 0
        errors ==
            [ i \in 1..Len(missing) |-> << "Missing required field", missing[i] >> ]
            \o (IF ~IsNull(side) /\ Val(side) # ""
                   /\ Val(side) \notin { "buy", "sell" }
                THEN << << "Side must be either buy or sell", "side" >> >>
                ELSE << >>)
            \o (IF invalidNumber(Prop(data, "price"))
                THEN << << "Price must be a valid positive number", "price" >> >>
                ELSE << >>)
            \o (IF invalidNumber(Prop(data, "volume"))
                THEN << << "Volume must be a valid positive number", "volume" >> >>
                ELSE << >>)
    IN  [ isValid |-> Len(errors) = 0, errors |-> errors ]

\* if (!map.has(key)) map.set(key, []); map.get(key).push(value)
MapPush(map, key, value) ==
    [ k \in DOMAIN map \cup { key } |->
        IF k = key
        THEN Append(IF k \in DOMAIN map THEN map[k] ELSE << >>, value)
        ELSE map[k] ]

\* calculator.addTradeData(tradeData) from a store: << threw, store after >>
AddTradeData(store, tradeData) ==
    IF Prop(tradeData, "constructor") # Some("TradeData")
    THEN << TRUE, store >>
    ELSE << FALSE, MapPush(store, Prop(tradeData, "assetId"), tradeData) >>

\* CryptoMarketAggregator.handleTradeUpdate(tradeData) on the aggregator a
HandleTradeUpdate(a, tradeData) ==
    IF ~ValidateTradeData(tradeData).isValid
    THEN a
    ELSE [ a EXCEPT
             !.tradeDataCache =
                 MapPush(@, Prop(tradeData, "assetId"), tradeData),
             !.calculator = AddTradeData(@, tradeData)[2] ]

\* trades.filter(trade => trade.timestamp >= cutoffTime) on every key
FilterOld(map, cutoffTime) ==
    [ k \in DOMAIN map |->
        SelectSeq(map[k], LAMBDA trade :
            /\ Val(trade.timestamp) # NaN
            /\ Val(trade.timestamp)[1] >= cutoffTime) ]

\* cleanupOldData(maxAge) at time now
CleanupOldData(a, maxAge, now) ==
    [ a EXCEPT !.calculator = FilterOld(@, now - maxAge),
               !.tradeDataCache = FilterOld(@, now - maxAge) ]

\* the calculator's calculateVWAP / TWAP / SMA / EMA on the trades it holds
\* for the asset (no time window): null, or the WeightedAverageResult
Calculate(method, trades) ==
    LET RECURSIVE Sort(_)
        \* trades.sort((a, b) => a.timestamp - b.timestamp), a stable sort
        Sort(list) ==
            IF Len(list) <= 1 THEN list
            ELSE LET rest == Sort(Tail(list))
                     time(trade) == Val(trade.timestamp)[1]
                     before == SelectSeq(rest, LAMBDA t : time(t) < time(Head(list)))
                     after == SelectSeq(rest, LAMBDA t : time(t) >= time(Head(list)))
                 IN  before \o << Head(list) >> \o after
        price(trade) == Val(trade.price)[1]
        volume(trade) == Val(trade.volume)[1]
        sorted == Sort(trades)
        totalVolume == SumSeq([ i \in 1..Len(trades) |-> volume(trades[i]) ])
        totalValue ==
            SumSeq([ i \in 1..Len(trades) |-> Mul(price(trades[i]), volume(trades[i])) ])
        timeDiff(i) == Val(sorted[i + 1].timestamp)[1] - Val(sorted[i].timestamp)[1]
        totalTime == SumSeq([ i \in 1..(Len(sorted) - 1) |-> timeDiff(i) ])
        weightedPrice ==
            SumSeq([ i \in 1..(Len(sorted) - 1) |-> price(sorted[i]) * timeDiff(i) ])
        sma == SumSeq([ i \in 1..Len(sorted) |-> price(sorted[i]) ]) \div Len(sorted)
        RECURSIVE Ema(_)
        Ema(n) ==
            IF n = 1 THEN price(sorted[1])
            ELSE (price(sorted[n]) * 2 + Ema(n - 1) * 19) \div 21
        result(average, total) ==
            Some([ weightedAverage |-> average, totalVolume |-> total,
                   tradeCount |-> Len(trades) ])
    IN  IF Len(trades) = 0 THEN Null
        ELSE CASE method = "VWAP" ->
                    IF totalVolume = 0 THEN Null
                    ELSE result(Div(totalValue, totalVolume), Some(totalVolume))
               [] method = "TWAP" ->
                    IF totalTime = 0 THEN Null
                    ELSE result(weightedPrice \div totalTime, Null)
               [] method = "SMA" -> result(sma, Null)
               [] method = "EMA" ->
                    IF Len(sorted) < 20 THEN result(sma, Null)
                    ELSE result(Ema(Len(sorted)), Null)
               [] OTHER -> Null

\* calculateWeightedAverage going to the calculator without validating
CalculateWithoutValidation(a, assetId, method) ==
    [ threw |-> Some(<< "No data available for asset", assetId >>),
      value |-> Null, calculated |-> TRUE ]

\* calculateWeightedAverage(assetId, method) on the aggregator a: what it
\* throws (the message's prefix and detail) or the value it returns
CalculateWeightedAverage(a, assetId, method) ==
    LET validMethods == { "VWAP", "TWAP", "SMA", "EMA" }
        trades == IF Some(assetId) \in DOMAIN a.calculator
                  THEN a.calculator[Some(assetId)] ELSE << >>
        throw(prefix, detail) ==
            [ threw |-> Some(<< prefix, detail >>), value |-> Null,
              calculated |-> FALSE ]
        result == Calculate(ToUpperCase(method), trades)
    IN  IF assetId = ""
        THEN throw("Invalid asset ID", "Asset ID must be a non-empty string")
        ELSE IF Len(assetId) > 100
        THEN throw("Invalid asset ID",
                   "Asset ID must be between 1 and 100 characters")
        ELSE IF method = ""
        THEN throw("Invalid calculation method",
                   "Calculation method must be a string")
        ELSE IF ToUpperCase(method) \notin validMethods
        THEN throw("Invalid calculation method",
                   "Calculation method must be one of: VWAP, TWAP, SMA, EMA")
        ELSE IF IsNull(result)
        THEN [ threw |-> Some(<< "No data available for asset", assetId >>),
               value |-> Null, calculated |-> TRUE ]
        ELSE [ threw |-> Null, value |-> result, calculated |-> TRUE ]

MarketAggregatorInit ==
    /\ InitEngine
    /\ fnIn = << >>
    /\ fnOut = << >>
    /\ ws = NewWebSocketClient(NoOptions)
    /\ aggregator = NewAggregator
    /\ api = NewApi

\* the socket delivers a trade message: WebSocketClient.handleTradeUpdate
\* emits 'tradeUpdate' with a TradeData, the aggregator's handler takes it
OnTradeMessage ==
    /\ \E data \in TradeMessages(clock) :
         aggregator' =
             [ HandleTradeUpdate(aggregator, NewTradeData(data))
                 EXCEPT !.received =
                     IF Len(@) < MaxStored THEN Append(@, data)
                     ELSE Append(Tail(@), data) ]
    /\ UNCHANGED << engineVars, isRunning, timers, updateInterval, startPc,
                    inFlight, volatilityData, marketCapData, clock, fnIn,
                    fnOut, ws, api >>

\* the owner feeds the calculator itself: calculator.addTradeData(new TradeData(data))
AddTradeDataCall ==
    /\ Len(aggregator.received) = 0
    /\ \A k \in DOMAIN aggregator.calculator :
         Len(aggregator.calculator[k]) < MaxStored
    /\ \E data \in { d \in TradeMessages(clock) :
                        d.asset_id = Some("BTC-USD") /\ d.side = Some("buy") } :
         aggregator' =
             [ aggregator EXCEPT
                 !.calculator = AddTradeData(@, NewTradeData(data))[2] ]
    /\ UNCHANGED << engineVars, isRunning, timers, updateInterval, startPc,
                    inFlight, volatilityData, marketCapData, clock, fnIn,
                    fnOut, ws, api >>

\* the owner calls cleanupOldData()
CleanupOldDataCall ==
    /\ aggregator' = CleanupOldData(aggregator, CleanupMaxAge, clock)
    /\ UNCHANGED << engineVars, isRunning, timers, updateInterval, startPc,
                    inFlight, volatilityData, marketCapData, clock, fnIn,
                    fnOut, ws, api >>

\* a day passes
DayPasses ==
    /\ clock < StartTime + MaxDays * CleanupMaxAge
    /\ clock' = clock + CleanupMaxAge
    /\ UNCHANGED << engineVars, isRunning, timers, updateInterval, startPc,
                    inFlight, volatilityData, marketCapData, fnIn, fnOut, ws,
                    aggregator, api >>

CalculateWeightedAverageCall ==
    /\ fnOut = << >>
    /\ \E assetId \in { "", "BTC-USD", "ETH-USD" },
          method \in { "VWAP", "TWAP", "SMA", "EMA", "vwap", "INVALID", "" } :
         Returns("calculateWeightedAverage",
                 [ assetId |-> assetId, method |-> method,
                   stored |-> IF Some(assetId) \in DOMAIN aggregator.calculator
                              THEN Len(aggregator.calculator[Some(assetId)])
                              ELSE 0,
                   outcome |-> CalculateWeightedAverage(aggregator, assetId, method) ])

MarketAggregatorNext ==
    \/ OnTradeMessage
    \/ AddTradeDataCall
    \/ CleanupOldDataCall
    \/ DayPasses
    \/ CalculateWeightedAverageCall

MarketAggregatorSpec == MarketAggregatorInit /\ [][MarketAggregatorNext]_vars

\* time passes and the socket delivers by themselves; the owner's calls
\* (cleanupOldData among them) happen only if the owner makes them
MarketAggregatorFairSpec ==
    /\ MarketAggregatorSpec
    /\ WF_vars(DayPasses)
    /\ WF_vars(OnTradeMessage)

-----------------------------------------------------------------------------
(* The API layer: initializeCPMI called by the request handlers *)

MaxRequests == 4     \* requests per behaviour

ApiInit ==
    /\ InitEngine
    /\ fnIn = << >>
    /\ fnOut = << >>
    /\ ws = NewWebSocketClient(NoOptions)
    /\ aggregator = NewAggregator
    /\ api = NewApi

\* a request handler calls initializeCPMI(): with cpmiStarted false it makes
\* an instance and awaits its start(), otherwise it returns cpmi
InitializeCPMI ==
    /\ Len(api.requests) < MaxRequests
    /\ api' =
         IF ~api.cpmiStarted
         THEN [ api EXCEPT
                  !.cpmi = Len(api.instances) + 1,
                  !.instances = Append(@, "starting"),
                  !.requests = Append(@, [ pc |-> "start",
                                           instance |-> Len(api.instances) + 1 ]) ]
         ELSE [ api EXCEPT
                  !.requests = Append(@, [ pc |-> "returned",
                                           instance |-> api.cpmi ]) ]
    /\ UNCHANGED << engineVars, isRunning, timers, updateInterval, startPc,
                    inFlight, volatilityData, marketCapData, clock, fnIn,
                    fnOut, ws, aggregator >>

\* the start() a call was awaiting returns (true with its timer set, or
\* false); the call sets cpmiStarted and returns cpmi
StartReturns ==
    /\ \E r \in 1..Len(api.requests), started \in BOOLEAN :
         /\ api.requests[r].pc = "start"
         /\ api' = [ api EXCEPT
                       !.instances[api.requests[r].instance] =
                           IF started THEN "running" ELSE "failed",
                       !.cpmiStarted = TRUE,
                       !.requests[r] = [ pc |-> "returned",
                                         instance |-> api.cpmi ] ]
    /\ UNCHANGED << engineVars, isRunning, timers, updateInterval, startPc,
                    inFlight, volatilityData, marketCapData, clock, fnIn,
                    fnOut, ws, aggregator >>

ApiNext ==
    \/ InitializeCPMI
    \/ StartReturns

ApiSpec == ApiInit /\ [][ApiNext]_vars

-----------------------------------------------------------------------------
(* Properties *)

\* calculateIndex calls that have begun and not yet returned
TicksInProgress == inFlight + (IF startPc = "firstTick" THEN 1 ELSE 0)

\* a step in which a tick whose fetch failed returns
FailedTickStep ==
    /\ tickLog'.fetched = tickLog.fetched
    /\ \/ inFlight' = inFlight - 1
       \/ startPc = "firstTick" /\ startPc' = "idle"

\* a step in which a tick whose fetch succeeded returns
FetchedTickStep == tickLog'.fetched = tickLog.fetched + 1

MeanValue(history) ==
    SumSeq([ i \in 1..Len(history) |-> history[i].value ]) \div Len(history)

\* the entries of the buffer no older than the smoothing window at time now
WithinWindow(history, now) ==
    SelectSeq(history, LAMBDA entry : entry.timestamp >= now - SmoothingPeriod)

\* C1: at most one calculateIndex call is in progress at any time.
C1_AtMostOneTick == TicksInProgress <= 1

\* C2: a tick whose trade fetch fails leaves currentIndex, the history
\* buffer, categoryIndices and lastUpdate as they were, and getCurrentIndex()
\* returns afterwards what it returned before.
C2_FailedFetchKeepsState ==
    [][ FailedTickStep =>
          /\ UNCHANGED << currentIndex, historicalValues, categoryIndices,
                          lastUpdate >>
          /\ GetCurrentIndex' = GetCurrentIndex ]_vars

\* a failed tick has returned after an index had been computed
C2_Witness == tickLog.outcome = "error" /\ Len(historicalValues) > 0

\* C3: a tick in which every category yields null appends no entry, keeps
\* currentIndex, and updates neither categoryIndices nor lastUpdate.
C3_ZeroWeightSkipsUpdate ==
    [][ (FetchedTickStep /\ tickLog'.outcome = "noWeight") =>
          UNCHANGED << historicalValues, currentIndex, categoryIndices,
                       lastUpdate >> ]_vars

\* C4: the history buffer, the category indices and the per-market
\* probability histories change only in a step in which a tick returns; no
\* read operation changes them.
C4_OnlyTicksMutate ==
    [][ << historicalValues, categoryIndices, probabilityHistory >>'
          # << historicalValues, categoryIndices, probabilityHistory >>
        => FetchedTickStep ]_vars

\* the sum over the categories whose index is not null of term[category]
SumOverActive(term) ==
    SumSeq([ i \in 1..Len(MarketCategories) |->
               IF IsNull(categoryIndices[MarketCategories[i].name]) THEN 0
               ELSE term[MarketCategories[i].name] ])

\* sum of categoryProb * categoryWeight over sum of categoryWeight, non-null
\* categories only
WeightedCategoryMean ==
    Div(SumOverActive([ c \in CategoryNames |->
                          IF IsNull(categoryIndices[c]) THEN 0
                          ELSE Mul(Val(categoryIndices[c]), CategoryWeights[c]) ]),
        SumOverActive(CategoryWeights))

\* C5: after a tick with a non-null category, the overallProbability the tick
\* recorded is the categoryWeight-weighted mean of the non-null category
\* indices.
C5_WeightedMeanOfCategories ==
    tickLog.outcome = "index" =>
        historicalValues[Len(historicalValues)].probability = WeightedCategoryMean

\* C6: every entry of the history buffer has value
\* baseline + (overallProbability - 50), overallProbability being its
\* probability field.
C6_RawIndexFromProbability ==
    \A i \in 1..Len(historicalValues) :
        historicalValues[i].value
            = BaselineValue + (historicalValues[i].probability - 50 * Scale)

\* C7: a tick at time now that appends an entry leaves in the buffer the
\* earlier entries with timestamp >= now - smoothingPeriod, in order, then the
\* new entry, and currentIndex is the mean over exactly these.
C7_WindowedBuffer ==
    [][ (FetchedTickStep /\ tickLog'.outcome = "index") =>
          /\ Len(historicalValues') >= 1
          /\ historicalValues'[Len(historicalValues')].timestamp = clock
          /\ SubSeq(historicalValues', 1, Len(historicalValues') - 1)
                = WithinWindow(historicalValues, clock)
          /\ currentIndex' = MeanValue(historicalValues') ]_vars

\* a tick has appended an entry and dropped one older than the window
C7_Witness == tickLog.outcome = "index" /\ tickLog.pruned >= 1

\* C8: whenever the history buffer is non-empty, the value getCurrentIndex()
\* reports is the arithmetic mean of the buffer's value fields.
C8_IndexIsMeanOfBuffer ==
    Len(historicalValues) > 0 =>
        GetCurrentIndex.value = MeanValue(historicalValues)

\* the buffer holds two entries of different value
C8_Witness ==
    /\ Len(historicalValues) >= 2
    /\ historicalValues[1].value # historicalValues[2].value

\* C9: within a tick a market is counted in at most one category, the first
\* category in the configured order one of whose keywords its title includes.
C9_OneCategoryPerMarket ==
    ~IsNull(lastProcessedMarkets) =>
        \A i \in 1..Len(Val(lastProcessedMarkets)) :
            \A k \in 1..Len(MarketCategories) :
                LET market == Val(lastProcessedMarkets)[i]
                IN  market \in Range(CategoryMarkets(MarketCategories[k].keywords,
                                                     Val(lastProcessedMarkets)))
                    => FirstCategoryOf(market.title)
                         = Some(MarketCategories[k].name)

\* C10: in every market summary of the trade aggregator, lastTrade has the
\* maximum timestamp among the market's trades.
C10_LastTradeIsLatest ==
    fnOut # << >> =>
        \A i \in 1..Len(fnOut[1]) :
            \A j \in 1..Len(fnOut[1][i].trades) :
                Val(fnOut[1][i].lastTrade).timestamp
                    >= fnOut[1][i].trades[j].timestamp

\* C11: after a tick on a batch whose trades have a size of 0 or more and a
\* price from 0 to 1, currentIndex, every value of the history and every
\* category index that is not null are numbers, never NaN.
C11_TickValuesFinite ==
    (fnOut # << >> /\ fnOut[1].fn = "calculateIndex") =>
        /\ fnOut[1].result.currentIndex # NaN
        /\ \A i \in 1..Len(fnOut[1].result.values) :
              fnOut[1].result.values[i] # NaN
        /\ \A c \in DOMAIN fnOut[1].result.categoryIndices :
              IsNull(fnOut[1].result.categoryIndices[c])
              \/ Val(fnOut[1].result.categoryIndices[c]) \in Int

\* calculateBullishProbability has returned for a market with this title
BullishProbabilityOf(title) ==
    /\ fnOut # << >>
    /\ fnOut[1].fn = "calculateBullishProbability"
    /\ fnOut[1].result.market.title = title

\* C12: the market "Will Bitcoin reach $100k?" with exactly the trades
\* {BUY, size 10, price 0.6} and {SELL, size 5, price 0.6} has the avgPrice
\* 0.6 and the bullish probability 60.
C12_ReachMarketIsSixty ==
    ( /\ BullishProbabilityOf(TitleOf["m1"])
      /\ fnIn = << Trade("m1", "BUY", 10 * Scale, F(6, 10), StartTime),
                   Trade("m1", "SELL", 5 * Scale, F(6, 10), StartTime) >> )
    => /\ fnOut[1].result.market.avgPrice = F(6, 10)
       /\ fnOut[1].result.probability = 60 * Scale

\* the number of the keywords that a title holds
KeywordCount(title, keywords) ==
    Cardinality({ w \in keywords : Includes(ToLowerCase(title), w) })

\* the titles whose outcome is bullish: more bullish than bearish keywords
BullishTitles ==
    { t \in Titles :
        KeywordCount(t, { "up", "higher", "rise", "increase", "bull",
                          "positive", "yes", "above", "reach" })
        > KeywordCount(t, { "down", "lower", "fall", "decrease", "bear",
                            "negative", "no", "below", "crash" }) }

Clamp(x, lo, hi) == Max(lo, Min(x, hi))

\* C13: for a binary market, the bullish probability is
\* clamp(avgPrice * 100, 0, 100) if the outcome of the title is bullish, and
\* the complement clamp((1 - avgPrice) * 100, 0, 100) otherwise.
C13_BinaryPolarity ==
    \A t \in Titles :
        (BullishProbabilityOf(t) /\ ClassifyMarketType(t) = "binary") =>
            fnOut[1].result.probability =
                IF t \in BullishTitles
                THEN Clamp(fnOut[1].result.market.avgPrice * 100, 0, 100 * Scale)
                ELSE Clamp((Scale - fnOut[1].result.market.avgPrice) * 100,
                           0, 100 * Scale)

\* C14: for a price-target or range market whose reference current price
\* cannot be looked up (this.marketCapData is empty), the bullish probability
\* is exactly 50.
C14_NeutralWithoutPrice ==
    \A t \in Titles :
        ( /\ BullishProbabilityOf(t)
          /\ ClassifyMarketType(t) \in { "range", "price_target" }
          /\ marketCapData = << >> )
        => fnOut[1].result.probability = 50 * Scale

\* a ratio whose denominator 0 is read as 0.5
NeutralRatio(part, whole) == IF whole = 0 THEN F(5, 10) ELSE Div(part, whole)

\* C15: in the sentiment fallback, a market whose buy volume plus sell volume
\* is 0 has the probability computed with 0.5 for the buy-volume ratio:
\* (0.6 * buy-trade ratio + 0.4 * 0.5) * 100.
C15_ZeroVolumeIsNeutral ==
    \A t \in Titles :
        ( /\ BullishProbabilityOf(t)
          /\ ClassifyMarketType(t) = "sentiment"
          /\ fnOut[1].result.market.buyVolume
             + fnOut[1].result.market.sellVolume = 0 )
        => fnOut[1].result.probability =
               ( Mul(F(6, 10), NeutralRatio(fnOut[1].result.market.buyTrades,
                                            fnOut[1].result.market.buyTrades
                                            + fnOut[1].result.market.sellTrades))
                 + Mul(F(4, 10), NeutralRatio(0, 0)) ) * 100

\* C16: for every market summary with avgPrice from 0 to 1 and for every
\* market type, the bullish probability is a number from 0 to 100.
C16_ProbabilityInRange ==
    ( /\ fnOut # << >>
      /\ fnOut[1].fn = "calculateBullishProbability"
      /\ fnOut[1].result.market.avgPrice \in 0..Scale )
    => fnOut[1].result.probability \in 0..(100 * Scale)

\* a market whose buys outweigh its sells, taken by the sentiment extractor
C16_Witness ==
    /\ BullishProbabilityOf(TitleOf["m1"])
    /\ fnOut[1].result.market.buyVolume > fnOut[1].result.market.sellVolume
    /\ fnOut[1].result.market.sellVolume > 0
    /\ fnOut[1].result.probability \in 0..(100 * Scale)

\* C17: for every market summary, calculateMarketWeight returns a number
\* from 0 to 1.
C17_WeightInUnitInterval ==
    (fnOut # << >> /\ fnOut[1].fn = "calculateMarketWeight") =>
        /\ fnOut[1].result.weight # NaN
        /\ fnOut[1].result.weight[1] \in 0..Scale

\* the rules of the four market types that each title matches
MatchedRules ==
    [ t \in Titles |->
        LET has(w) == Includes(ToLowerCase(t), w)
        IN  [ range |-> has("between") /\ has("and")
                        /\ (has("$") \/ has("price")),
              priceTarget |->
                  /\ \E w \in { "reach", "hit", "above", "below", "dip to",
                                 "go to", "touch", "drop to", "fall to",
                                 "crash to" } : has(w)
                  /\ (has("$") \/ has("price")),
              directional |->
                  \E w \in { "up or down", "up/down", "bullish", "bearish" } :
                      has(w),
              binary |->
                  /\ has("will")
                  /\ \E w \in { "?", "happen", "say", "pass", "win" } : has(w) ] ]

\* C18: classifyMarketType gives every title exactly one type, that of the
\* first rule the title matches in the order range, price target,
\* directional, binary, and sentiment if and only if it matches none; the
\* type depends on the title alone.
C18_FirstMatchingRule ==
    (fnOut # << >> /\ fnOut[1].fn = "classifyMarketType") =>
        LET rules == MatchedRules[fnOut[1].result.title]
        IN  fnOut[1].result.type =
                IF rules.range THEN "range"
                ELSE IF rules.priceTarget THEN "price_target"
                ELSE IF rules.directional THEN "direction"
                ELSE IF rules.binary THEN "binary"
                ELSE "sentiment"

\* a title that matches the price-target rule and the binary rule
C18_Witness ==
    /\ fnOut # << >>
    /\ fnOut[1].fn = "classifyMarketType"
    /\ MatchedRules[fnOut[1].result.title].priceTarget
    /\ MatchedRules[fnOut[1].result.title].binary
    /\ fnOut[1].result.type = "price_target"

\* C19: a failure of the request is never raised into the tick: the client
\* returns a response with success false and the error's message, and the
\* tick takes it as an error, which it tells from every batch that was
\* fetched, the empty one included.
C19_FailureIsAResponse ==
    fnOut # << >> =>
        IF fnIn.rejects
        THEN /\ ~fnOut[1].result.response.success
             /\ fnOut[1].result.response.error = Some(fnIn.message)
             /\ fnOut[1].result.tick.outcome = "error"
        ELSE /\ fnOut[1].result.response.success
             /\ fnOut[1].result.tick.outcome # "error"

\* a tick whose request timed out
C19_Witness ==
    /\ fnOut # << >>
    /\ fnIn.rejects
    /\ fnOut[1].result.response.error = Some("timeout of 30000ms exceeded")
    /\ fnOut[1].result.tick.outcome = "error"

\* C20: after an unexpected close the client reconnects by itself, and the
\* delay before each reconnection attempt grows with the number of
\* consecutive failed attempts: of the timeouts set since the connection was
\* last open, each one waits longer than the one before it.
C20_BackoffGrows ==
    \A i \in 1..(Len(ws.delays) - 1) : ws.delays[i + 1] > ws.delays[i]

\* the trade is held under its asset in the map
Held(map, trade) ==
    /\ trade.assetId \in DOMAIN map
    /\ \E j \in 1..Len(map[trade.assetId]) : map[trade.assetId][j] = trade

\* C21: a well-formed trade message received on the socket passes the
\* aggregator's validation, is held in the trade cache and in the calculator
\* (as long as it is no older than the cleanup age) and is counted by a
\* later calculateWeightedAverage for its asset.
C21_WellFormedTradeIsStored ==
    \A i \in 1..Len(aggregator.received) :
      LET data == aggregator.received[i]
          trade == NewTradeData(data)
      IN  /\ ValidateTradeData(data).isValid
          /\ Val(data.timestamp)[1] >= clock - CleanupMaxAge
          => /\ ValidateTradeData(trade).isValid
             /\ Held(aggregator.tradeDataCache, trade)
             /\ Held(aggregator.calculator, trade)
             /\ ~IsNull(CalculateWeightedAverage(
                            aggregator, Val(data.asset_id), "VWAP").value)

\* some store holds a trade older than the maximum age
HoldsOldTrade ==
    \E map \in { aggregator.tradeDataCache, aggregator.calculator } :
      \E k \in DOMAIN map : \E j \in 1..Len(map[k]) :
        Val(map[k][j].timestamp)[1] < clock - CleanupMaxAge

\* C22: old trades are cleaned up by the aggregator itself: whenever a store
\* holds a trade older than the maximum age, it is eventually removed,
\* whether or not the owner calls a cleanup method.
C22_OldTradesAreRemoved == HoldsOldTrade ~> ~HoldsOldTrade

\* the calculateWeightedAverage call that has returned, if any
WeightedAverageCalls ==
    { fnOut[i].result : i \in { j \in 1..Len(fnOut) :
                                  fnOut[j].fn = "calculateWeightedAverage" } }

\* what a call must have thrown, given which methods count as valid
ThrowsAsDocumented(call, valid) ==
    LET prefix == IF IsNull(call.outcome.threw) THEN ""
                  ELSE Val(call.outcome.threw)[1]
    IN  /\ call.assetId = ""
            => prefix = "Invalid asset ID" /\ ~call.outcome.calculated
        /\ call.assetId # "" /\ ~valid
            => prefix = "Invalid calculation method" /\ ~call.outcome.calculated
        /\ call.assetId # "" /\ valid /\ call.stored = 0
            => prefix \notin { "", "Invalid asset ID", "Invalid calculation method" }

\* C23 as stated: an empty asset ID throws 'Invalid asset ID', a method
\* outside {VWAP, TWAP, SMA, EMA} throws 'Invalid calculation method', both
\* before anything is calculated, and valid parameters with no stored data
\* throw another error.
C23_MethodOutsideSetThrows ==
    \A call \in WeightedAverageCalls :
      ThrowsAsDocumented(call, call.method \in { "VWAP", "TWAP", "SMA", "EMA" })

\* C23, amended: the same, with a method counted as valid when its upper-case
\* form is one of VWAP, TWAP, SMA, EMA.
C23_ValidationErrors ==
    \A call \in WeightedAverageCalls :
      ThrowsAsDocumented(call, ToUpperCase(call.method)
                                 \in { "VWAP", "TWAP", "SMA", "EMA" })

C23_Witness ==
    \E call \in WeightedAverageCalls :
      /\ call.assetId = "BTC-USD"
      /\ call.method = "INVALID"
      /\ call.outcome.threw
           = Some(<< "Invalid calculation method",
                     "Calculation method must be one of: VWAP, TWAP, SMA, EMA" >>)

\* C24: once stop() has returned (and no start() is in progress), no tick is
\* started and currentIndex, the history buffer, categoryIndices and
\* lastUpdate are not modified, also by a tick that was awaiting its fetch.
C24_StoppedStaysStill ==
    [][ ~isRunning /\ startPc = "idle" =>
          /\ UNCHANGED << currentIndex, historicalValues, categoryIndices,
                          lastUpdate >>
          /\ TicksInProgress' <= TicksInProgress ]_vars

\* C25: whatever start() and stop() calls are made on the instance, at most
\* one of its periodic timers is active at a time.
C25_AtMostOneTimer == Cardinality(timers) <= 1

\* C26: after disconnect() the client stays disconnected: while this.ws is
\* null no reconnection is scheduled and isConnected is false.
C26_DisconnectedStays ==
    ws.socket = "null" => IsNull(ws.reconnectTimer) /\ ~ws.isConnected

\* C27: reconnectAttempts never exceeds maxReconnectAttempts, and at most
\* that many reconnections are scheduled between two opens: once that many
\* have been scheduled and have failed, no further one is.
C27_AttemptsBounded ==
    /\ ws.reconnectAttempts <= ws.options.maxReconnectAttempts
    /\ Len(ws.delays) <= ws.options.maxReconnectAttempts

C27_Witness ==
    /\ ws.options.maxReconnectAttempts = 3
    /\ ws.reconnectAttempts = 3
    /\ Len(ws.delays) = 3
    /\ ws.socket = "closed"
    /\ IsNull(ws.reconnectTimer)

\* C28: when a reconnection made by the client itself succeeds, every asset
\* tracked before is subscribed to on the new socket, and the tracked set is
\* what it was; while the connection is lost the tracked set does not change.
C28_ResubscribedAfterReconnect ==
    [][ /\ ws.socket = "connecting" /\ ws.automatic /\ ws'.socket = "open"
          => ws'.sent = ws.subscriptions /\ ws'.subscriptions = ws.subscriptions
        /\ ~ws.isConnected => ws'.subscriptions = ws.subscriptions ]_vars

C28_Witness ==
    /\ ws.socket = "open"
    /\ ws.automatic
    /\ ws.subscriptions = { "BTC-USD", "ETH-USD" }
    /\ ws.sent = ws.subscriptions

\* C29: every label classifyMarketType returns has its own branch in
\* calculateBullishProbability: a price-target market goes to the
\* price-target extractor, a directional one to the directional extractor,
\* and only sentiment markets reach the trade-sentiment fallback.
C29_EveryLabelHasItsBranch ==
    \A i \in 1..Len(fnOut) :
      fnOut[i].fn = "classifyMarketType" =>
        LET type == fnOut[i].result.type
            branch == SwitchBranch(type)
        IN  /\ type = "price_target"
                => branch = "extractPricePredictionProbability"
            /\ type = "direction" => branch = "extractDirectionalProbability"
            /\ branch = "extractSentimentProbability" => type = "sentiment"

\* C30: the API layer makes and starts at most one index instance, also when
\* several requests call initializeCPMI before the first start() is over.
C30_OneInstance == Len(api.instances) <= 1

=============================================================================
